---- MODULE Spec2Model ----
(***************************************************************************)
(* Persistence layer of the Student Wellbeing App:                         *)
(*   core/database/connection.py  get_db_connection, get_db_pool           *)
(*   core/database/migrations.py  run_migrations                           *)
(* together with the part of the SQLite store the two functions and their  *)
(* callers (tests/) rely on: CREATE TABLE IF NOT EXISTS, AUTOINCREMENT,    *)
(* PRIMARY KEY / UNIQUE / NOT NULL / FOREIGN KEY checking on INSERT, the   *)
(* per-handle foreign_keys pragma and the single-writer transaction.       *)
(***************************************************************************)
EXTENDS Integers, Sequences, FiniteSets, TLC

VARIABLES
    schema,     \* the store's tables: a set of table definitions (DDL is autocommitted)
    rows,       \* committed rows, per table name
    seq,        \* committed sqlite_sequence contents: highest id handed out, per table name
    txn,        \* the open write transaction: its owner handle (0: none) and working rows/seq
    conns,      \* every connection object ever created, by handle id
    issued,     \* the handle ids returned by get_db_connection / get_db_pool, in call order
    last,       \* the outcome of the latest statement or provider call of a caller
    mig,        \* each run_migrations caller: position, handle, error, statement log
    afterFirst, \* the first run_migrations to return: the schema it found and left, its handle
    DB_PATH,    \* connection.DB_PATH, the module global, as it is now
    bound,      \* the path each connection object was opened on
    files,      \* per path: does the file exist; was it written since DB_PATH was last set
    shelf,      \* the stores at the paths DB_PATH does not name (schema, rows, seq)
    assigned    \* per table: the highest id the store has given to an insert that named none

vars == <<schema, rows, seq, txn, conns, issued, last, mig, afterFirst,
          DB_PATH, bound, files, shelf, assigned>>
pathVars == <<DB_PATH, bound, files, shelf>>

----------------------------------------------------------------------------
(* Bounds *)

MaxHandles == 2     \* connection objects created in one behaviour
MaxPre == 1         \* tables already in the store before the first run_migrations
MaxRows == 2        \* rows inserted in one behaviour
MaxId == 3          \* the highest row id a table hands out

----------------------------------------------------------------------------
(* SQL values: dynamically typed, NULL is its own kind.  k: the kind;      *)
(* s: the text of a text value; n: the number of an integer value.         *)

NULL == [k |-> "null", s |-> "", n |-> 0]
T(x) == [k |-> "text", s |-> x, n |-> 0]
I(x) == [k |-> "int", s |-> "", n |-> x]
IsNull(x) == x.k = "null"

Max(S) == IF S = {} THEN 0 ELSE CHOOSE x \in S : \A y \in S : y <= x

RECURSIVE SeqToSet(_)
SeqToSet(s) == IF s = <<>> THEN {} ELSE {Head(s)} \cup SeqToSet(Tail(s))

NoDuplicates(s) == \A a, b \in 1..Len(s) : s[a] = s[b] => a = b

----------------------------------------------------------------------------
(* Table definitions, one per CREATE TABLE statement of run_migrations.    *)
(* cols: <<name, declared type>> in declaration order.                     *)

Col(n, ty) == <<n, ty>>
FK(c, t, rc) == [col |-> c, ref_table |-> t, ref_col |-> rc]

(* the student statement with the UNIQUE word left off email *)
StudentDDL_EmailNotUnique ==
    [name |-> "student", if_not_exists |-> TRUE,
     cols |-> << Col("student_id", "TEXT"), Col("first_name", "TEXT"),
                 Col("lastname", "TEXT"), Col("email", "TEXT"),
                 Col("password", "TEXT"), Col("year", "INTEGER") >>,
     pk |-> "student_id", autoinc |-> FALSE,
     unique |-> {}, notnull |-> {}, fks |-> {}]

StudentDDL ==
    [name |-> "student", if_not_exists |-> TRUE,
     cols |-> << Col("student_id", "TEXT"), Col("first_name", "TEXT"),
                 Col("lastname", "TEXT"), Col("email", "TEXT"),
                 Col("password", "TEXT"), Col("year", "INTEGER") >>,
     pk |-> "student_id", autoinc |-> FALSE,
     unique |-> {"email"}, notnull |-> {}, fks |-> {}]

AttendanceDDL ==
    [name |-> "attendance", if_not_exists |-> TRUE,
     cols |-> << Col("attendance_id", "INTEGER"), Col("student_id", "TEXT"),
                 Col("session_date", "DATE"), Col("session_id", "TEXT"),
                 Col("status", "TEXT") >>,
     pk |-> "attendance_id", autoinc |-> TRUE,
     unique |-> {}, notnull |-> {},
     fks |-> {FK("student_id", "student", "student_id")}]

AssessmentDDL ==
    [name |-> "assessment", if_not_exists |-> TRUE,
     cols |-> << Col("assessment_id", "INTEGER"), Col("module_code", "TEXT"),
                 Col("title", "TEXT"), Col("due_date", "DATE"),
                 Col("weight", "REAL") >>,
     pk |-> "assessment_id", autoinc |-> TRUE,
     unique |-> {}, notnull |-> {}, fks |-> {}]

SubmissionDDL ==
    [name |-> "submission", if_not_exists |-> TRUE,
     cols |-> << Col("submission_id", "INTEGER"), Col("student_id", "TEXT"),
                 Col("assessment_id", "INTEGER"), Col("submitted_at", "DATETIME"),
                 Col("status", "TEXT"), Col("mark", "REAL") >>,
     pk |-> "submission_id", autoinc |-> TRUE,
     unique |-> {}, notnull |-> {},
     fks |-> {FK("student_id", "student", "student_id"),
              FK("assessment_id", "assessment", "assessment_id")}]

WellbeingRecordDDL ==
    [name |-> "wellbeing_record", if_not_exists |-> TRUE,
     cols |-> << Col("record_id", "INTEGER"), Col("student_id", "TEXT"),
                 Col("week_start", "DATE"), Col("stress_level", "INTEGER"),
                 Col("sleep_hours", "REAL"), Col("source_type", "TEXT") >>,
     pk |-> "record_id", autoinc |-> TRUE,
     unique |-> {}, notnull |-> {},
     fks |-> {FK("student_id", "student", "student_id")}]

AlertDDL ==
    [name |-> "alert", if_not_exists |-> TRUE,
     cols |-> << Col("alert_id", "INTEGER"), Col("student_id", "TEXT"),
                 Col("alert_type", "TEXT"), Col("reason", "TEXT"),
                 Col("created_at", "DATETIME"), Col("resolved", "INTEGER") >>,
     pk |-> "alert_id", autoinc |-> TRUE,
     unique |-> {}, notnull |-> {},
     fks |-> {FK("student_id", "student", "student_id")}]

RetentionRuleDDL ==
    [name |-> "retention_rule", if_not_exists |-> TRUE,
     cols |-> << Col("rule_id", "INTEGER"), Col("data_type", "TEXT"),
                 Col("retention_months", "INTEGER"), Col("is_active", "INTEGER") >>,
     pk |-> "rule_id", autoinc |-> TRUE,
     unique |-> {}, notnull |-> {}, fks |-> {}]

AuditLogDDL ==
    [name |-> "audit_log", if_not_exists |-> TRUE,
     cols |-> << Col("log_id", "INTEGER"), Col("user_id", "TEXT"),
                 Col("entity_type", "TEXT"), Col("entity_id", "INTEGER"),
                 Col("action_type", "TEXT"), Col("timestamp", "DATETIME"),
                 Col("details", "TEXT") >>,
     pk |-> "log_id", autoinc |-> TRUE,
     unique |-> {}, notnull |-> {}, fks |-> {}]

(* a user table that requires only three of the four columns *)
UserDDL_RoleOptional ==
    [name |-> "user", if_not_exists |-> TRUE,
     cols |-> << Col("user_id", "TEXT"), Col("first_name", "TEXT"),
                 Col("lastname", "TEXT"), Col("password_hash", "TEXT"),
                 Col("role", "TEXT") >>,
     pk |-> "user_id", autoinc |-> FALSE,
     unique |-> {},
     notnull |-> {"first_name", "lastname", "password_hash"},
     fks |-> {}]

UserDDL ==
    [name |-> "user", if_not_exists |-> TRUE,
     cols |-> << Col("user_id", "TEXT"), Col("first_name", "TEXT"),
                 Col("lastname", "TEXT"), Col("password_hash", "TEXT"),
                 Col("role", "TEXT") >>,
     pk |-> "user_id", autoinc |-> FALSE,
     unique |-> {},
     notnull |-> {"first_name", "lastname", "password_hash", "role"},
     fks |-> {}]

(* The statements of run_migrations between get_db_connection and commit,  *)
(* in program order.                                                       *)
MigrationDDL_NoUser ==
    << StudentDDL, AttendanceDDL, AssessmentDDL, SubmissionDDL,
       WellbeingRecordDDL, AlertDDL, RetentionRuleDDL, AuditLogDDL >>

MigrationDDL ==
    << StudentDDL, AttendanceDDL, AssessmentDDL, SubmissionDDL,
       WellbeingRecordDDL, AlertDDL, RetentionRuleDDL, AuditLogDDL, UserDDL >>

NineTables ==
    {"student", "attendance", "assessment", "submission", "wellbeing_record",
     "alert", "retention_rule", "audit_log", "user"}

----------------------------------------------------------------------------
(* The store's catalogue *)

(* What the catalogue keeps of a statement: the table, not the IF NOT EXISTS words *)
TableOf(ddl) ==
    [name |-> ddl.name, cols |-> ddl.cols, pk |-> ddl.pk, autoinc |-> ddl.autoinc,
     unique |-> ddl.unique, notnull |-> ddl.notnull, fks |-> ddl.fks]

(* The engine's own bookkeeping table, made with the first AUTOINCREMENT table *)
SqliteSequence ==
    [name |-> "sqlite_sequence",
     cols |-> << Col("name", ""), Col("seq", "") >>,
     pk |-> "", autoinc |-> FALSE, unique |-> {}, notnull |-> {}, fks |-> {}]

TableNames == NineTables \cup {"sqlite_sequence", "notes"}

Names(sch) == {t.name : t \in sch}
Exists(sch, n) == n \in Names(sch)
TableNamed(sch, n) == CHOOSE t \in sch : t.name = n
ColNames(t) == {t.cols[j][1] : j \in 1..Len(t.cols)}

----------------------------------------------------------------------------
(* Errors.  NoError is the absence of an exception. *)

NoError == "ok"
AlreadyExists == "OperationalError: table already exists"
Locked == "OperationalError: database is locked"
(* What the store may raise on any statement, whatever the statement is    *)
StoreFaults == {"OperationalError: disk I/O error"}

----------------------------------------------------------------------------
(* CREATE TABLE [IF NOT EXISTS] as the store executes it.                  *)
(* `busy`: another handle holds the write lock.                            *)

EmptyRows == [n \in TableNames |-> {}]
EmptySeq == [n \in TableNames |-> 0]

(* a statement that replaces what is there, as DROP TABLE + CREATE TABLE would *)
ExecDropAndCreate(sch, rws, ddl, busy) ==
    [err |-> NoError,
     schema |-> {t \in sch : t.name # ddl.name}
                    \cup {TableOf(ddl)}
                    \cup (IF ddl.autoinc THEN {SqliteSequence} ELSE {}),
     rows |-> [rws EXCEPT ![ddl.name] = {}]]

(* a statement whose IF NOT EXISTS words are missing *)
ExecCreateUnguarded(sch, rws, ddl, busy) ==
    IF Exists(sch, ddl.name)
    THEN [err |-> AlreadyExists, schema |-> sch, rows |-> rws]
    ELSE [err |-> NoError,
          schema |-> sch \cup {TableOf(ddl)}
                         \cup (IF ddl.autoinc THEN {SqliteSequence} ELSE {}),
          rows |-> [rws EXCEPT ![ddl.name] = {}]]

ExecCreateTable(sch, rws, ddl, busy) ==
    IF Exists(sch, ddl.name)
    THEN IF ddl.if_not_exists
         THEN [err |-> NoError, schema |-> sch, rows |-> rws]
         ELSE [err |-> AlreadyExists, schema |-> sch, rows |-> rws]
    ELSE IF busy
    THEN [err |-> Locked, schema |-> sch, rows |-> rws]
    ELSE [err |-> NoError,
          schema |-> sch \cup {TableOf(ddl)}
                         \cup (IF ddl.autoinc THEN {SqliteSequence} ELSE {}),
          rows |-> [rws EXCEPT ![ddl.name] = {}]]

----------------------------------------------------------------------------
(* Connection objects *)

Handles == 1..MaxHandles
NoConn ==
    [state |-> "free", fk |-> FALSE, row_factory |-> "tuple", closes |-> 0,
     owner |-> "none"]
NoTxn == [owner |-> 0, rows |-> EmptyRows, seq |-> EmptySeq]

FreeHandles(cs) == {h \in Handles : cs[h].state = "free"}
(* sqlite3.connect builds a new object on every call *)
NewHandle(cs) == CHOOSE h \in FreeHandles(cs) : \A g \in FreeHandles(cs) : h <= g
IsOpen(cs, h) == h \in Handles /\ cs[h].state = "open"

(* How a provider call can go: no fault, or a fault at one of its two store operations *)
ProviderOutcomes ==
    {<<"none", NoError>>} \cup ({"connect", "pragma"} \X StoreFaults)

(* a provider that leaves out the pragma *)
GetDbConnectionNoPragma(cs, f) ==
    LET h == NewHandle(cs) IN
    IF f[1] = "connect"
    THEN [err |-> f[2], handle |-> 0, conns |-> cs, log |-> <<"connect">>]
    ELSE [err |-> NoError, handle |-> h,
          conns |-> [cs EXCEPT ![h] = [state |-> "open", fk |-> FALSE,
                                       row_factory |-> "Row", closes |-> 0,
                                       owner |-> "none"]],
          log |-> <<"connect">>]

(* a provider that tries the pragma a second time when it fails *)
GetDbConnectionRetry(cs, f) ==
    LET h == NewHandle(cs) IN
    IF f[1] = "connect"
    THEN [err |-> f[2], handle |-> 0, conns |-> cs, log |-> <<"connect">>]
    ELSE [err |-> NoError, handle |-> h,
          conns |-> [cs EXCEPT ![h] = [state |-> "open", fk |-> TRUE,
                                       row_factory |-> "Row", closes |-> 0,
                                       owner |-> "none"]],
          log |-> IF f[1] = "pragma" THEN <<"connect", "pragma", "pragma">>
                  ELSE <<"connect", "pragma">>]

(* a provider that leaves the row factory at the driver's default *)
GetDbConnectionPlainRows(cs, f) ==
    LET h == NewHandle(cs) IN
    IF f[1] = "connect"
    THEN [err |-> f[2], handle |-> 0, conns |-> cs, log |-> <<"connect">>]
    ELSE IF f[1] = "pragma"
    THEN [err |-> f[2], handle |-> 0,
          conns |-> [cs EXCEPT ![h] = [state |-> "open", fk |-> FALSE,
                                       row_factory |-> "tuple", closes |-> 0,
                                       owner |-> "none"]],
          log |-> <<"connect", "pragma">>]
    ELSE [err |-> NoError, handle |-> h,
          conns |-> [cs EXCEPT ![h] = [state |-> "open", fk |-> TRUE,
                                       row_factory |-> "tuple", closes |-> 0,
                                       owner |-> "none"]],
          log |-> <<"connect", "pragma">>]

(* get_db_connection: connect, set row_factory, PRAGMA foreign_keys = ON, return. *)
(* A fault at connect leaves no object; a fault at the pragma leaves the   *)
(* object open, foreign keys off, and returned to nobody.                  *)
GetDbConnection(cs, f) ==
    LET h == NewHandle(cs) IN
    IF f[1] = "connect"
    THEN [err |-> f[2], handle |-> 0, conns |-> cs, log |-> <<"connect">>]
    ELSE IF f[1] = "pragma"
    THEN [err |-> f[2], handle |-> 0,
          conns |-> [cs EXCEPT ![h] = [state |-> "open", fk |-> FALSE,
                                       row_factory |-> "Row", closes |-> 0,
                                       owner |-> "none"]],
          log |-> <<"connect", "pragma">>]
    ELSE [err |-> NoError, handle |-> h,
          conns |-> [cs EXCEPT ![h] = [state |-> "open", fk |-> TRUE,
                                       row_factory |-> "Row", closes |-> 0,
                                       owner |-> "none"]],
          log |-> <<"connect", "pragma">>]

(* a pool that hands out the handle it handed out last *)
GetDbPoolCached(cs, f, iss) ==
    IF iss # <<>> /\ f[1] = "none"
    THEN [err |-> NoError, handle |-> iss[Len(iss)], conns |-> cs, log |-> <<>>]
    ELSE GetDbConnection(cs, f)

(* a pool that opens the store itself and leaves out the provider's settings *)
GetDbPoolBare(cs, f, iss) ==
    LET h == NewHandle(cs) IN
    IF f[1] = "connect"
    THEN [err |-> f[2], handle |-> 0, conns |-> cs, log |-> <<"connect">>]
    ELSE [err |-> NoError, handle |-> h,
          conns |-> [cs EXCEPT ![h] = [state |-> "open", fk |-> FALSE,
                                       row_factory |-> "tuple", closes |-> 0,
                                       owner |-> "none"]],
          log |-> <<"connect">>]

(* get_db_pool: return get_db_connection().  `iss`, the handles handed out *)
(* so far, is not consulted: there is no pool.                             *)
GetDbPool(cs, f, iss) == GetDbConnection(cs, f)

(* conn.close(): an open transaction of the handle is rolled back *)
CloseConn(cs, tx, h) ==
    [conns |-> [cs EXCEPT ![h].state = "closed", ![h].closes = @ + 1],
     txn |-> IF tx.owner = h THEN NoTxn ELSE tx]

----------------------------------------------------------------------------
(* Store files.  schema, rows, seq and txn are the store at the path       *)
(* DB_PATH names; the stores at other paths are on the shelf.              *)

DefaultPath == "BASE_DIR/student_wellbeing_db.sqlite3"
TempPath == "tmp_path/migrations.sqlite3"
Paths == {DefaultPath, TempPath}
Nowhere == "nowhere"

NoFile == [exists |-> FALSE, written |-> FALSE]
EmptyStore == [schema |-> {}, rows |-> EmptyRows, seq |-> EmptySeq]

(* a provider that opens the path the module was imported with *)
OpenedPathAtImport(dbp) == DefaultPath

(* sqlite3.connect(DB_PATH): the global is read when the call is made *)
OpenedPath(dbp) == dbp

(* What a provider call with result r does outside the connection objects: *)
(* the object it made, if any, is bound to the path it opened, and         *)
(* sqlite3.connect has created the file there if there was none.           *)
Connected(r) ==
    LET p == OpenedPath(DB_PATH)
        made == {h \in Handles : conns[h].state = "free" /\ r.conns[h].state # "free"}
    IN /\ bound' = [h \in Handles |-> IF h \in made THEN p ELSE bound[h]]
       /\ files' = IF made # {} THEN [files EXCEPT ![p].exists = TRUE] ELSE files
       /\ UNCHANGED <<DB_PATH, shelf, assigned>>

(* A statement through handle h that changed the store has written the file h is bound to *)
Written(h, changed) ==
    /\ files' = IF changed THEN [files EXCEPT ![bound[h]].written = TRUE] ELSE files
    /\ UNCHANGED <<DB_PATH, bound, shelf, assigned>>

----------------------------------------------------------------------------
(* run_migrations, statement by statement.                                 *)
(* pc: idle -> (connect) -> create 1..9 -> commit -> close -> returned,    *)
(* or raised from any statement.  log: the store operations the call has   *)
(* attempted; fault: what the store raised, if it did; err: what reaches   *)
(* the caller; pre: the store as the call found it.                        *)

Migrators == {"m1", "m2"}

IdleMig ==
    [pc |-> "idle", i |-> 0, conn |-> 0, err |-> NoError, fault |-> NoError,
     log |-> <<>>, pre |-> [schema |-> {}, rows |-> EmptyRows]]

StmtName(i) == "create " \o MigrationDDL[i].name

(* an exception handler that swallows the error and carries on with the next statement *)
OnStoreErrorContinue(r, next, e) ==
    [r EXCEPT !.pc = next.pc, !.i = next.i]

(* an exception handler that raises an error of its own in place of the store's *)
OnStoreErrorTranslate(r, next, e) ==
    [r EXCEPT !.pc = "raised", !.err = "RuntimeError: migration failed"]

(* an exception handler (try/finally) that goes on to close the handle *)
OnStoreErrorCleanup(r, next, e) ==
    [r EXCEPT !.pc = "close", !.err = e]

(* an exception handler around the whole body that gives up on the rest    *)
(* and lets the call end as if nothing had happened                        *)
OnStoreErrorGiveUp(r, next, e) ==
    [r EXCEPT !.pc = "close", !.i = 0]

(* run_migrations has no try/except/finally: an error raised by a statement *)
(* leaves the function at once, as it is (`next`, the position after the   *)
(* statement, is not taken).                                               *)
OnStoreError(r, next, e) ==
    [r EXCEPT !.pc = "raised", !.err = e]

(* The object a provider call returned now belongs to whoever called *)
Own(r, who) ==
    IF r.err = NoError THEN [r.conns EXCEPT ![r.handle].owner = who] ELSE r.conns

(* The call, and line 12: conn = get_db_connection() *)
MigConnect(m) ==
    /\ mig[m].pc = "idle"
    /\ FreeHandles(conns) # {}
    /\ \E f \in ProviderOutcomes :
         LET r == GetDbConnection(conns, f)
             started == [mig[m] EXCEPT !.pc = "connect", !.i = 0, !.conn = r.handle,
                                       !.err = NoError, !.fault = r.err,
                                       !.log = r.log,
                                       !.pre = [schema |-> schema, rows |-> rows]]
             next == [pc |-> "create", i |-> 1]
         IN /\ conns' = Own(r, m)
            /\ issued' = IF r.err = NoError THEN Append(issued, r.handle) ELSE issued
            /\ mig' = [mig EXCEPT ![m] =
                         IF r.err = NoError
                         THEN [started EXCEPT !.pc = next.pc, !.i = next.i]
                         ELSE OnStoreError(started, next, r.err)]
            /\ Connected(r)
    /\ UNCHANGED <<schema, rows, seq, txn, last, afterFirst>>

(* Lines 19-117: the i-th cursor.execute("CREATE TABLE IF NOT EXISTS ...") *)
MigCreate(m) ==
    /\ mig[m].pc = "create"
    /\ LET i == mig[m].i
           h == mig[m].conn
           attempt == [mig[m] EXCEPT !.log = Append(@, StmtName(i))]
           next == IF i = Len(MigrationDDL) THEN [pc |-> "commit", i |-> 0]
                   ELSE [pc |-> "create", i |-> i + 1]
       IN \E fault \in {NoError} \cup StoreFaults :
            LET r == IF fault = NoError
                     THEN ExecCreateTable(schema, rows, MigrationDDL[i],
                                          txn.owner \notin {0, h})
                     ELSE [err |-> fault, schema |-> schema, rows |-> rows]
                logged == [attempt EXCEPT !.fault = r.err]
            IN /\ schema' = r.schema
               /\ rows' = r.rows
               /\ mig' = [mig EXCEPT ![m] =
                            IF r.err = NoError
                            THEN [logged EXCEPT !.pc = next.pc, !.i = next.i]
                            ELSE OnStoreError(logged, next, r.err)]
               /\ Written(h, r.schema # schema)
    /\ UNCHANGED <<seq, txn, conns, issued, last, afterFirst>>

(* Line 119: conn.commit().  The handle has run DDL only, which the driver *)
(* executes outside any transaction, so there is nothing left to commit.   *)
MigCommit(m) ==
    /\ mig[m].pc = "commit"
    /\ LET h == mig[m].conn
           attempt == [mig[m] EXCEPT !.log = Append(@, "commit")]
           next == [pc |-> "close", i |-> 0]
       IN \E fault \in {NoError} \cup StoreFaults :
            LET logged == [attempt EXCEPT !.fault = fault] IN
            /\ mig' = [mig EXCEPT ![m] =
                         IF fault = NoError
                         THEN [logged EXCEPT !.pc = next.pc, !.i = next.i]
                         ELSE OnStoreError(logged, next, fault)]
            /\ IF fault = NoError /\ txn.owner = h
               THEN /\ rows' = txn.rows
                    /\ seq' = txn.seq
                    /\ txn' = NoTxn
               ELSE UNCHANGED <<rows, seq, txn>>
            /\ Written(h, fault = NoError /\ txn.owner = h
                             /\ (txn.rows # rows \/ txn.seq # seq))
    /\ UNCHANGED <<schema, conns, issued, last, afterFirst>>

(* Lines 122-123: cursor.close(); conn.close(); then the function returns, *)
(* or, had an error been kept, raises it.                                  *)
MigClose(m) ==
    /\ mig[m].pc = "close"
    /\ LET c == CloseConn(conns, txn, mig[m].conn)
           ok == mig[m].err = NoError
       IN /\ conns' = c.conns
          /\ txn' = c.txn
          /\ mig' = [mig EXCEPT ![m].pc = IF ok THEN "returned" ELSE "raised",
                                ![m].log = Append(@, "close")]
          /\ afterFirst' = IF ok /\ ~afterFirst.set
                           THEN [set |-> TRUE, schema |-> schema, conn |-> mig[m].conn,
                                 pre |-> mig[m].pre.schema]
                           ELSE afterFirst
    /\ UNCHANGED <<schema, rows, seq, issued, last>>
    /\ UNCHANGED <<pathVars, assigned>>

(* The caller has the result of run_migrations, a return or an exception,  *)
(* and goes on; the function's locals are gone.                            *)
MigResume(m) ==
    /\ mig[m].pc \in {"returned", "raised"}
    /\ mig' = [mig EXCEPT ![m] = IdleMig]
    /\ UNCHANGED <<schema, rows, seq, txn, conns, issued, last, afterFirst>>
    /\ UNCHANGED <<pathVars, assigned>>

----------------------------------------------------------------------------
(* Other callers of the provider *)

NoCall == [op |-> "none", handle |-> 0, err |-> NoError, table |-> ""]

(* The caller is one thread of control (spec 5: single-threaded, blocking): *)
(* it is back from run_migrations before it does anything else.            *)
AtRest == \A m \in Migrators : mig[m].pc = "idle"

CallGetDbConnection ==
    /\ AtRest
    /\ FreeHandles(conns) # {}
    /\ \E f \in ProviderOutcomes :
         LET r == GetDbConnection(conns, f) IN
         /\ conns' = Own(r, "caller")
         /\ issued' = IF r.err = NoError THEN Append(issued, r.handle) ELSE issued
         /\ last' = [op |-> "get_db_connection", handle |-> r.handle, err |-> r.err,
                     table |-> ""]
         /\ Connected(r)
    /\ UNCHANGED <<schema, rows, seq, txn, mig, afterFirst>>

CallGetDbPool ==
    /\ AtRest
    /\ FreeHandles(conns) # {}
    /\ \E f \in ProviderOutcomes :
         LET r == GetDbPool(conns, f, issued) IN
         /\ conns' = Own(r, "caller")
         /\ issued' = IF r.err = NoError THEN Append(issued, r.handle) ELSE issued
         /\ last' = [op |-> "get_db_pool", handle |-> r.handle, err |-> r.err,
                     table |-> ""]
         /\ Connected(r)
    /\ UNCHANGED <<schema, rows, seq, txn, mig, afterFirst>>

(* The handles a caller other than run_migrations owns *)
CallerHandles == {h \in Handles : conns[h].owner = "caller"}

(* The owner of a handle closes it *)
CallClose(h) ==
    /\ AtRest
    /\ h \in CallerHandles
    /\ IsOpen(conns, h)
    /\ LET c == CloseConn(conns, txn, h) IN
         /\ conns' = c.conns
         /\ txn' = c.txn
    /\ last' = [op |-> "close", handle |-> h, err |-> NoError, table |-> ""]
    /\ UNCHANGED <<schema, rows, seq, issued, mig, afterFirst>>
    /\ UNCHANGED <<pathVars, assigned>>

----------------------------------------------------------------------------
(* Stores run_migrations may find: empty, or holding up to MaxPre tables   *)
(* of an earlier time, each with a row: tables run_migrations would make   *)
(* itself (the first, the last, one with AUTOINCREMENT and a foreign key), *)
(* a student table of another shape, a table it knows nothing of.          *)

LegacyStudent ==
    [name |-> "student",
     cols |-> << Col("id", "INTEGER"), Col("name", "TEXT") >>,
     pk |-> "id", autoinc |-> FALSE, unique |-> {}, notnull |-> {"name"}, fks |-> {}]

Notes ==
    [name |-> "notes",
     cols |-> << Col("body", "TEXT") >>,
     pk |-> "", autoinc |-> FALSE, unique |-> {}, notnull |-> {}, fks |-> {}]

PreTables ==
    {TableOf(StudentDDL), TableOf(AttendanceDDL), TableOf(UserDDL), LegacyStudent, Notes}

WithSequence(S) ==
    S \cup (IF \E t \in S : t.autoinc THEN {SqliteSequence} ELSE {})

InitialSchemas ==
    {WithSequence(S) : S \in {X \in SUBSET PreTables :
                                /\ Cardinality(X) <= MaxPre
                                /\ \A a, b \in X : a.name = b.name => a = b}}

OldRow(t) ==
    [rowid |-> 1,
     vals |-> [c \in ColNames(t) |->
                 IF c = t.pk THEN (IF t.cols[1][2] = "INTEGER" THEN I(1) ELSE T("old"))
                 ELSE IF \E f \in t.fks : f.col = c THEN NULL
                 ELSE T("old")]]

PreRows(sch) ==
    [n \in TableNames |->
        IF Exists(sch, n) /\ n # "sqlite_sequence" THEN {OldRow(TableNamed(sch, n))}
        ELSE {}]

PreSeq(sch) ==
    [n \in TableNames |->
        IF Exists(sch, n) /\ TableNamed(sch, n).autoinc THEN 1 ELSE 0]

(* DB_PATH as the module sets it on import (line 6); a store with no table *)
(* is a file that is not there yet.                                        *)
InitPaths ==
    /\ DB_PATH = DefaultPath
    /\ bound = [h \in Handles |-> Nowhere]
    /\ files = [p \in Paths |-> IF p = DefaultPath /\ schema # {}
                                THEN [exists |-> TRUE, written |-> FALSE]
                                ELSE NoFile]
    /\ shelf = [p \in Paths |-> EmptyStore]
    /\ assigned = [n \in TableNames |-> 0]

Init ==
    /\ schema \in InitialSchemas
    /\ rows = PreRows(schema)
    /\ seq = PreSeq(schema)
    /\ txn = NoTxn
    /\ conns = [h \in Handles |-> NoConn]
    /\ issued = <<>>
    /\ last = NoCall
    /\ mig = [m \in Migrators |-> IdleMig]
    /\ afterFirst = [set |-> FALSE, schema |-> {}, conn |-> 0, pre |-> {}]
    /\ InitPaths

(* One caller runs run_migrations, again and again; other callers take and *)
(* close handles of their own.                                             *)
Next ==
    \/ MigConnect("m1")
    \/ MigCreate("m1")
    \/ MigCommit("m1")
    \/ MigClose("m1")
    \/ MigResume("m1")
    \/ CallGetDbConnection
    \/ CallGetDbPool
    \/ \E h \in Handles : CallClose(h)

Spec == Init /\ [][Next]_vars

----------------------------------------------------------------------------
(* INSERT as the store executes it on the rows a handle sees.              *)
(* `given`: a value for every column, NULL where the statement names none. *)

NoSuchTable == "OperationalError: no such table"
NoSuchColumn == "OperationalError: table has no column named"
FKMismatch == "OperationalError: foreign key mismatch"
NotNullFailed == "IntegrityError: NOT NULL constraint failed"
UniqueFailed == "IntegrityError: UNIQUE constraint failed"
FKFailed == "IntegrityError: FOREIGN KEY constraint failed"
ClosedHandle == "ProgrammingError: Cannot operate on a closed database."

TypeOf(t, c) == t.cols[CHOOSE j \in 1..Len(t.cols) : t.cols[j][1] = c][2]
(* an INTEGER PRIMARY KEY column is the row id itself *)
IsRowidAlias(t) == t.pk # "" /\ TypeOf(t, t.pk) = "INTEGER"

(* a table whose integer key is not AUTOINCREMENT: the next row id is one  *)
(* above the highest id in the table now                                   *)
StoredRowNoSequence(t, view, given) ==
    LET top == Max({r.rowid : r \in view.rows[t.name]})
        rowid == IF IsRowidAlias(t) /\ ~IsNull(given[t.pk]) THEN given[t.pk].n ELSE top + 1
    IN [rowid |-> rowid,
        vals |-> IF IsRowidAlias(t) THEN [given EXCEPT ![t.pk] = I(rowid)] ELSE given]

(* The row as stored: a NULL integer primary key takes the next row id,    *)
(* which under AUTOINCREMENT is above every id the table has ever used.    *)
StoredRow(t, view, given) ==
    LET top == Max({r.rowid : r \in view.rows[t.name]})
        rowid == IF IsRowidAlias(t) /\ ~IsNull(given[t.pk]) THEN given[t.pk].n
                 ELSE IF t.autoinc THEN Max({top, view.seq[t.name]}) + 1
                 ELSE top + 1
    IN [rowid |-> rowid,
        vals |-> IF IsRowidAlias(t) THEN [given EXCEPT ![t.pk] = I(rowid)] ELSE given]

(* PRIMARY KEY and UNIQUE: a value that is not NULL may occur once *)
KeyCols(t) == (IF t.pk # "" THEN {t.pk} ELSE {}) \cup t.unique
ViolatesUnique(t, view, row) ==
    \E c \in KeyCols(t) :
        /\ ~IsNull(row.vals[c])
        /\ \E r \in view.rows[t.name] : r.vals[c] = row.vals[c]

ViolatesNotNull(t, row) == \E c \in t.notnull : IsNull(row.vals[c])

(* FOREIGN KEY: a child value that is not NULL must equal the parent key of some row *)
FKUnusable(sch, t) ==
    \E f \in t.fks :
        \/ ~Exists(sch, f.ref_table)
        \/ f.ref_col \notin KeyCols(TableNamed(sch, f.ref_table))
ViolatesFK(sch, t, view, row) ==
    \E f \in t.fks :
        /\ ~IsNull(row.vals[f.col])
        /\ ~\E p \in view.rows[f.ref_table] : p.vals[f.ref_col] = row.vals[f.col]

(* a store that checks no foreign key, as without the pragma *)
ExecInsertNoFK(sch, view, fkOn, n, given) ==
    LET t == TableNamed(sch, n)
        row == StoredRow(t, view, given)
    IN IF ViolatesNotNull(t, row) THEN [err |-> NotNullFailed, rows |-> view.rows, seq |-> view.seq]
       ELSE IF ViolatesUnique(t, view, row)
       THEN [err |-> UniqueFailed, rows |-> view.rows, seq |-> view.seq]
       ELSE [err |-> NoError,
             rows |-> [view.rows EXCEPT ![n] = @ \cup {row}],
             seq |-> IF t.autoinc THEN [view.seq EXCEPT ![n] = Max({@, row.rowid})]
                     ELSE view.seq]

ExecInsert(sch, view, fkOn, n, given) ==
    IF ~Exists(sch, n)
    THEN [err |-> NoSuchTable, rows |-> view.rows, seq |-> view.seq]
    ELSE IF ~(DOMAIN given \subseteq ColNames(TableNamed(sch, n)))
    THEN [err |-> NoSuchColumn, rows |-> view.rows, seq |-> view.seq]
    ELSE
    LET t == TableNamed(sch, n)
        row == StoredRow(t, view, given)
        fail(e) == [err |-> e, rows |-> view.rows, seq |-> view.seq]
    IN IF fkOn /\ FKUnusable(sch, t) THEN fail(FKMismatch)
       ELSE IF ViolatesNotNull(t, row) THEN fail(NotNullFailed)
       ELSE IF ViolatesUnique(t, view, row) THEN fail(UniqueFailed)
       ELSE IF fkOn /\ ViolatesFK(sch, t, view, row) THEN fail(FKFailed)
       ELSE [err |-> NoError,
             rows |-> [view.rows EXCEPT ![n] = @ \cup {row}],
             seq |-> IF t.autoinc THEN [view.seq EXCEPT ![n] = Max({@, row.rowid})]
                     ELSE view.seq]

----------------------------------------------------------------------------
(* Statements of callers, through a handle of their own *)

(* What handle h reads: its own uncommitted work, else what is committed *)
View(h) ==
    IF txn.owner = h THEN [rows |-> txn.rows, seq |-> txn.seq]
    ELSE [rows |-> rows, seq |-> seq]

TotalRows(rws) == Cardinality(UNION {{<<n, r>> : r \in rws[n]} : n \in TableNames})

(* The highest id the store has chosen itself, counting this INSERT's if it chose one *)
GivenIds(asg, sch, view, fkOn, n, given) ==
    LET r == ExecInsert(sch, view, fkOn, n, given) IN
    IF r.err = NoError /\ IsRowidAlias(TableNamed(sch, n)) /\ IsNull(given[TableNamed(sch, n).pk])
    THEN [asg EXCEPT ![n] = Max({@} \cup {x.rowid : x \in r.rows[n] \ view.rows[n]})]
    ELSE asg

(* con.execute("INSERT INTO n(...) VALUES (...)").  The driver opens a     *)
(* transaction before the INSERT; it stays open, holding the write lock,   *)
(* whether or not the statement succeeds, until commit or close.           *)
InsertUpTo(h, n, given, cap) ==
    /\ AtRest
    /\ h \in CallerHandles
    /\ IF ~IsOpen(conns, h)
       THEN /\ last' = [op |-> "insert", handle |-> h, err |-> ClosedHandle, table |-> n]
            /\ UNCHANGED txn
       ELSE IF txn.owner \notin {0, h}
       THEN /\ last' = [op |-> "insert", handle |-> h, err |-> Locked, table |-> n]
            /\ UNCHANGED txn
       ELSE LET r == ExecInsert(schema, View(h), conns[h].fk, n, given) IN
            /\ r.err = NoError => TotalRows(View(h).rows) < cap
            /\ \A x \in r.rows[n] : x.rowid <= MaxId
            /\ last' = [op |-> "insert", handle |-> h, err |-> r.err, table |-> n]
            /\ txn' = [owner |-> h, rows |-> r.rows, seq |-> r.seq]
    /\ assigned' = IF IsOpen(conns, h) /\ txn.owner \in {0, h}
                   THEN GivenIds(assigned, schema, View(h), conns[h].fk, n, given)
                   ELSE assigned
    /\ UNCHANGED <<schema, rows, seq, conns, issued, mig, afterFirst>>
    /\ UNCHANGED pathVars

CallInsert(h, n, given) == InsertUpTo(h, n, given, MaxRows)

(* con.commit(), by the handle that has work to commit *)
CallCommit(h) ==
    /\ AtRest
    /\ h \in CallerHandles
    /\ IsOpen(conns, h)
    /\ txn.owner = h
    /\ rows' = txn.rows
    /\ seq' = txn.seq
    /\ txn' = NoTxn
    /\ last' = [op |-> "commit", handle |-> h, err |-> NoError, table |-> ""]
    /\ Written(h, txn.rows # rows \/ txn.seq # seq)
    /\ UNCHANGED <<schema, conns, issued, mig, afterFirst>>

(* The rows callers insert, table by table: the key columns range over a   *)
(* few values and NULL, every other column has one value of its type.      *)
Default(ty) == IF ty \in {"INTEGER", "REAL"} THEN I(0) ELSE T("x")
BaseRow(ddl) ==
    [c \in ColNames(ddl) |-> IF c = ddl.pk /\ ddl.autoinc THEN NULL ELSE Default(TypeOf(ddl, c))]

StudentRefs == {T("S1"), T("S2"), NULL}

InsertInputs(n) ==
    IF n = "student"
    THEN {[BaseRow(StudentDDL) EXCEPT !.student_id = k[1], !.email = k[2]] :
            k \in {<<T("S1"), T("e1")>>, <<T("S2"), T("e1")>>,
                   <<T("S1"), NULL>>, <<NULL, NULL>>}}
    ELSE IF n = "attendance"
    THEN {[BaseRow(AttendanceDDL) EXCEPT !.student_id = s] : s \in StudentRefs}
    ELSE IF n = "wellbeing_record"
    THEN {[BaseRow(WellbeingRecordDDL) EXCEPT !.student_id = s] : s \in StudentRefs}
    ELSE IF n = "alert"
    THEN {[BaseRow(AlertDDL) EXCEPT !.student_id = s] : s \in StudentRefs}
    ELSE IF n = "submission"
    THEN {[BaseRow(SubmissionDDL) EXCEPT !.student_id = k[1], !.assessment_id = k[2]] :
            k \in StudentRefs \X {I(1), NULL}}
    ELSE IF n = "assessment" THEN {BaseRow(AssessmentDDL)}
    ELSE IF n = "retention_rule" THEN {BaseRow(RetentionRuleDDL)}
    ELSE IF n = "audit_log" THEN {BaseRow(AuditLogDDL)}
    ELSE {[BaseRow(UserDDL) EXCEPT !.user_id = k[1], !.role = k[2]] :
            k \in {T("U1"), NULL} \X {T("staff"), NULL}}

(* The store after run_migrations has returned on an empty store *)
RECURSIVE RunAll(_, _)
RunAll(sch, i) ==
    IF i > Len(MigrationDDL) THEN sch
    ELSE RunAll(ExecCreateTable(sch, EmptyRows, MigrationDDL[i], FALSE).schema, i + 1)

MigratedSchema == RunAll({}, 1)

InitData ==
    /\ schema = MigratedSchema
    /\ rows = EmptyRows
    /\ seq = EmptySeq
    /\ txn = NoTxn
    /\ conns = [h \in Handles |-> NoConn]
    /\ issued = <<>>
    /\ last = NoCall
    /\ mig = [m \in Migrators |-> IdleMig]
    /\ afterFirst = [set |-> TRUE, schema |-> MigratedSchema, conn |-> 0, pre |-> {}]
    /\ InitPaths

(* A caller that works as each test does: it takes a handle when it holds  *)
(* none, inserts through it, commits, closes it.                           *)
HoldsNone == \A h \in CallerHandles : ~IsOpen(conns, h)
DataTables == {"student", "attendance", "assessment", "submission", "user"}

NextData ==
    \/ HoldsNone /\ CallGetDbConnection
    \/ HoldsNone /\ CallGetDbPool
    \/ \E h \in Handles : CallClose(h)
    \/ \E h \in Handles : \E n \in DataTables : \E given \in InsertInputs(n) :
           IsOpen(conns, h) /\ CallInsert(h, n, given)
    \/ \E h \in Handles : CallCommit(h)

SpecData == InitData /\ [][NextData]_vars

(* Callers that hold several handles at once, and go on using one after closing it *)
NextHandles ==
    \/ CallGetDbConnection
    \/ CallGetDbPool
    \/ \E h \in Handles : CallClose(h)
    \/ \E h \in Handles : \E n \in {"student", "attendance"} :
           \E given \in {g \in InsertInputs(n) : g.student_id = T("S1")} :
               CallInsert(h, n, given)
    \/ \E h \in Handles : CallCommit(h)

SpecHandles == InitData /\ [][NextHandles]_vars

----------------------------------------------------------------------------
(* What a caller reads back *)

(* SELECT name FROM sqlite_master WHERE type='table', through handle h *)
TablesSeenBy(h) == IF IsOpen(conns, h) THEN Names(schema) ELSE {}

Running == {m \in Migrators : mig[m].pc # "idle"}

----------------------------------------------------------------------------
(* C1: run_migrations is idempotent: once a run has returned, every later  *)
(* run leaves the set of tables and their structure as that run left them, *)
(* and no run is refused because its tables are already there.             *)
C1_Idempotent ==
    /\ afterFirst.set => schema = afterFirst.schema
    /\ \A m \in Migrators : mig[m].err # AlreadyExists

(* a second run has returned *)
C1_Witness ==
    \E m \in Migrators :
        /\ mig[m].pc = "returned"
        /\ afterFirst.set
        /\ afterFirst.conn # mig[m].conn

(* C2, as claimed: after run_migrations has returned on an empty store, a  *)
(* handle acquired afterwards sees exactly the nine tables and no other.   *)
AcquiredAfterMigration(h) ==
    /\ afterFirst.set
    /\ afterFirst.pre = {}
    /\ h \in CallerHandles
    /\ h > afterFirst.conn
    /\ IsOpen(conns, h)

C2_ExactlyNine ==
    \A h \in Handles : AcquiredAfterMigration(h) => TablesSeenBy(h) = NineTables

(* C2, amended: after run_migrations has returned on an empty store, a     *)
(* handle acquired afterwards sees the nine tables and the store's own     *)
(* sqlite_sequence table, which the AUTOINCREMENT tables bring, and no other. *)
C2_NineAndSequence ==
    \A h \in Handles :
        AcquiredAfterMigration(h) =>
            TablesSeenBy(h) = NineTables \cup {"sqlite_sequence"}

C2_Witness == \E h \in Handles : AcquiredAfterMigration(h)

----------------------------------------------------------------------------
(* The schema as spec.md section 6 lists it, table by table *)
SpecTable(n, cols, pk, autoinc, unique, notnull, fks) ==
    [name |-> n, cols |-> cols, pk |-> pk, autoinc |-> autoinc,
     unique |-> unique, notnull |-> notnull, fks |-> fks]

SpecSchema ==
    { SpecTable("student",
        << <<"student_id", "TEXT">>, <<"first_name", "TEXT">>, <<"lastname", "TEXT">>,
           <<"email", "TEXT">>, <<"password", "TEXT">>, <<"year", "INTEGER">> >>,
        "student_id", FALSE, {"email"}, {}, {}),
      SpecTable("attendance",
        << <<"attendance_id", "INTEGER">>, <<"student_id", "TEXT">>,
           <<"session_date", "DATE">>, <<"session_id", "TEXT">>, <<"status", "TEXT">> >>,
        "attendance_id", TRUE, {}, {},
        {[col |-> "student_id", ref_table |-> "student", ref_col |-> "student_id"]}),
      SpecTable("assessment",
        << <<"assessment_id", "INTEGER">>, <<"module_code", "TEXT">>, <<"title", "TEXT">>,
           <<"due_date", "DATE">>, <<"weight", "REAL">> >>,
        "assessment_id", TRUE, {}, {}, {}),
      SpecTable("submission",
        << <<"submission_id", "INTEGER">>, <<"student_id", "TEXT">>,
           <<"assessment_id", "INTEGER">>, <<"submitted_at", "DATETIME">>,
           <<"status", "TEXT">>, <<"mark", "REAL">> >>,
        "submission_id", TRUE, {}, {},
        {[col |-> "student_id", ref_table |-> "student", ref_col |-> "student_id"],
         [col |-> "assessment_id", ref_table |-> "assessment",
          ref_col |-> "assessment_id"]}),
      SpecTable("wellbeing_record",
        << <<"record_id", "INTEGER">>, <<"student_id", "TEXT">>, <<"week_start", "DATE">>,
           <<"stress_level", "INTEGER">>, <<"sleep_hours", "REAL">>,
           <<"source_type", "TEXT">> >>,
        "record_id", TRUE, {}, {},
        {[col |-> "student_id", ref_table |-> "student", ref_col |-> "student_id"]}),
      SpecTable("alert",
        << <<"alert_id", "INTEGER">>, <<"student_id", "TEXT">>, <<"alert_type", "TEXT">>,
           <<"reason", "TEXT">>, <<"created_at", "DATETIME">>, <<"resolved", "INTEGER">> >>,
        "alert_id", TRUE, {}, {},
        {[col |-> "student_id", ref_table |-> "student", ref_col |-> "student_id"]}),
      SpecTable("retention_rule",
        << <<"rule_id", "INTEGER">>, <<"data_type", "TEXT">>,
           <<"retention_months", "INTEGER">>, <<"is_active", "INTEGER">> >>,
        "rule_id", TRUE, {}, {}, {}),
      SpecTable("audit_log",
        << <<"log_id", "INTEGER">>, <<"user_id", "TEXT">>, <<"entity_type", "TEXT">>,
           <<"entity_id", "INTEGER">>, <<"action_type", "TEXT">>,
           <<"timestamp", "DATETIME">>, <<"details", "TEXT">> >>,
        "log_id", TRUE, {}, {}, {}),
      SpecTable("user",
        << <<"user_id", "TEXT">>, <<"first_name", "TEXT">>, <<"lastname", "TEXT">>,
           <<"password_hash", "TEXT">>, <<"role", "TEXT">> >>,
        "user_id", FALSE, {},
        {"first_name", "lastname", "password_hash", "role"}, {}) }

(* The tables a call has made: those in the store that it did not find there *)
MadeBy(m) == {t \in schema : t.name \in NineTables /\ ~Exists(mig[m].pre.schema, t.name)}
PastCreates(m) == mig[m].pc \in {"commit", "close", "returned"}

(* C3: each table run_migrations creates has exactly the columns, primary  *)
(* key, UNIQUE, NOT NULL and foreign keys the spec's schema lists for it,  *)
(* and it creates every one of the nine that is not there yet.             *)
C3_SchemaAsSpecified ==
    \A m \in Migrators :
        PastCreates(m) =>
            /\ \A t \in MadeBy(m) : t \in SpecSchema
            /\ \A n \in NineTables : Exists(schema, n)

(* a call on an empty store has made all nine *)
C3_Witness ==
    \E m \in Migrators :
        /\ mig[m].pc = "returned"
        /\ {t.name : t \in MadeBy(m)} = NineTables

(* C4: run_migrations never drops or alters what exists: every table the   *)
(* call found, one of the nine names with other columns included, has the  *)
(* same structure and the same rows at every point of the call and after.  *)
C4_ExistingUntouched ==
    \A m \in Running :
        \A t \in mig[m].pre.schema :
            /\ t \in schema
            /\ rows[t.name] = mig[m].pre.rows[t.name]

(* a call has returned on a store that held a student table of another shape, with a row *)
C4_Witness ==
    \E m \in Migrators :
        /\ mig[m].pc = "returned"
        /\ LegacyStudent \in mig[m].pre.schema
        /\ mig[m].pre.rows["student"] # {}

(* C5, as claimed: when control has left run_migrations, by return or by   *)
(* an error, the handle it acquired has been closed, exactly once.         *)
C5_AlwaysClosed ==
    \A m \in Migrators :
        (mig[m].pc \in {"returned", "raised"} /\ mig[m].conn # 0) =>
            /\ conns[mig[m].conn].state = "closed"
            /\ conns[mig[m].conn].closes = 1

(* C6: no recovery and no retry: when a store operation of run_migrations  *)
(* or of get_db_connection fails, the call is over with that very error,   *)
(* the failed operation is the last one attempted, and no operation is     *)
(* attempted twice; a failed provider call hands out no handle.            *)
C6_FailFast ==
    /\ \A m \in Running :
         /\ NoDuplicates(mig[m].log)
         /\ mig[m].fault # NoError =>
              /\ mig[m].pc = "raised"
              /\ mig[m].err = mig[m].fault
         /\ mig[m].pc = "raised" => mig[m].fault # NoError
         /\ (mig[m].pc = "raised" /\ mig[m].conn # 0) =>
              \/ mig[m].log[Len(mig[m].log)] = "commit"
              \/ /\ Len(mig[m].log) >= 3
                 /\ mig[m].log[Len(mig[m].log)] = StmtName(Len(mig[m].log) - 2)
         /\ mig[m].conn = 0 => mig[m].log \in {<<"connect">>, <<"connect", "pragma">>}
    /\ last.err # NoError => last.handle = 0

(* a CREATE TABLE in the middle of a run has failed *)
C6_Witness ==
    \E m \in Migrators :
        /\ mig[m].pc = "raised"
        /\ mig[m].fault \in StoreFaults
        /\ Len(mig[m].log) > 3
        /\ mig[m].log[Len(mig[m].log)] # "commit"

----------------------------------------------------------------------------
(* The row sets there are to read: what is committed, and the open         *)
(* transaction's work                                                      *)
RowSets == {rows} \cup (IF txn.owner # 0 THEN {txn.rows} ELSE {})

Issued == SeqToSet(issued)

(* C7: every handle get_db_connection or get_db_pool has returned has      *)
(* foreign-key checking on for as long as it is open, each handle by its   *)
(* own setting; so no attendance row is ever accepted for a student that   *)
(* is not there.                                                           *)
C7_ForeignKeysOn ==
    /\ \A h \in Issued : IsOpen(conns, h) => conns[h].fk
    /\ \A rs \in RowSets : \A a \in rs["attendance"] :
           \E p \in rs["student"] : p.vals.student_id = a.vals.student_id

(* a handle from each entry point is open, and one has inserted an attendance row *)
C7_Witness ==
    /\ \E h, g \in Issued : h # g /\ IsOpen(conns, h) /\ IsOpen(conns, g)
    /\ last.op = "get_db_pool" /\ last.err = NoError
    /\ \E rs \in RowSets : rs["attendance"] # {}

(* C8, as claimed: on a migrated store an insert, through a provider       *)
(* handle, of an attendance, submission, wellbeing_record or alert row     *)
(* whose student_id is the student_id of no student row (or of a           *)
(* submission whose assessment_id is that of no assessment row) fails with *)
(* the foreign-key integrity error and leaves the table's rows as they were. *)
ChildTables == {"attendance", "submission", "wellbeing_record", "alert"}

NoSuchStudent(v, given) ==
    ~\E p \in v.rows["student"] : p.vals.student_id = given.student_id
NoSuchAssessment(v, given) ==
    ~\E p \in v.rows["assessment"] : p.vals.assessment_id = given.assessment_id
Dangling(n, v, given) ==
    NoSuchStudent(v, given) \/ (n = "submission" /\ NoSuchAssessment(v, given))

C8_DanglingInsertFails ==
    [][\A h \in Handles : \A n \in ChildTables : \A given \in InsertInputs(n) :
          (/\ IsOpen(conns, h)
           /\ h \in Issued
           /\ Dangling(n, View(h), given)
           /\ CallInsert(h, n, given))
          => /\ last'.err = FKFailed
             /\ txn'.rows[n] = View(h).rows[n]]_vars

(* What the store does enforce: the insert fails so when the dangling      *)
(* reference is a value; a NULL student_id or assessment_id is not checked. *)
NonNullDangling(n, v, given) ==
    \/ ~IsNull(given.student_id) /\ NoSuchStudent(v, given)
    \/ n = "submission" /\ ~IsNull(given.assessment_id) /\ NoSuchAssessment(v, given)

DanglingValueInsertFails ==
    [][\A h \in Handles : \A n \in ChildTables : \A given \in InsertInputs(n) :
          (/\ IsOpen(conns, h)
           /\ h \in Issued
           /\ NonNullDangling(n, View(h), given)
           /\ CallInsert(h, n, given))
          => /\ last'.err = FKFailed
             /\ txn'.rows[n] = View(h).rows[n]]_vars

(* C9, as claimed: in every state of a migrated store no two student rows  *)
(* share an email, no two share a student_id, no two user rows share a     *)
(* user_id; and an insert of a student whose email an existing student     *)
(* holds fails with the uniqueness error.                                  *)
C9_UniqueKeys ==
    /\ [](\A rs \in RowSets :
            /\ \A a, b \in rs["student"] :
                 a # b => /\ a.vals.email # b.vals.email
                          /\ a.vals.student_id # b.vals.student_id
            /\ \A a, b \in rs["user"] : a # b => a.vals.user_id # b.vals.user_id)
    /\ [][\A h \in Handles : \A given \in InsertInputs("student") :
            (/\ IsOpen(conns, h)
             /\ \E p \in View(h).rows["student"] : p.vals.email = given.email
             /\ CallInsert(h, "student", given))
            => /\ last'.err = UniqueFailed
               /\ txn'.rows["student"] = View(h).rows["student"]]_vars

(* What the store does enforce: keys that are values are unique; rows      *)
(* whose student_id, email or user_id is NULL may repeat.                  *)
KeyValuesUnique ==
    /\ [](\A rs \in RowSets :
            /\ \A a, b \in rs["student"] :
                 a # b => /\ (IsNull(a.vals.email) \/ a.vals.email # b.vals.email)
                          /\ (IsNull(a.vals.student_id) \/ a.vals.student_id # b.vals.student_id)
            /\ \A a, b \in rs["user"] :
                 a # b => (IsNull(a.vals.user_id) \/ a.vals.user_id # b.vals.user_id))
    /\ [][\A h \in Handles : \A given \in InsertInputs("student") :
            (/\ IsOpen(conns, h)
             /\ ~IsNull(given.email)
             /\ \E p \in View(h).rows["student"] : p.vals.email = given.email
             /\ CallInsert(h, "student", given))
            => /\ last'.err = UniqueFailed
               /\ txn'.rows["student"] = View(h).rows["student"]]_vars

(* C10: handles from separate calls, of either entry point, are distinct   *)
(* objects; closing one leaves every other handle as it was, open, and a   *)
(* statement is refused as on a closed handle only when its own handle has *)
(* been closed.                                                            *)
C10_IndependentHandles ==
    /\ [](NoDuplicates(issued))
    /\ [](last.err = ClosedHandle => conns[last.handle].state = "closed")
    /\ [][\A h, g \in Handles :
            (/\ h # g
             /\ IsOpen(conns, h)
             /\ IsOpen(conns, g)
             /\ conns'[h].state = "closed")
            => conns'[g] = conns[g]]_vars

(* one of two handles has been closed and the other has since inserted a row *)
C10_Witness ==
    \E h, g \in Issued :
        /\ h # g
        /\ conns[h].state = "closed"
        /\ IsOpen(conns, g)
        /\ last = [op |-> "insert", handle |-> g, err |-> NoError, table |-> "student"]

----------------------------------------------------------------------------
(* C11: get_db_pool does what get_db_connection does and pools nothing: a  *)
(* call of either that returns, returns a handle no earlier call returned, *)
(* newly opened on the store, rows by name and position, foreign keys on;  *)
(* and the call leaves every other handle as it was.                       *)
ProviderCalls == {"get_db_connection", "get_db_pool"}

FreshlyConfigured ==
    [state |-> "open", fk |-> TRUE, row_factory |-> "Row", closes |-> 0, owner |-> "caller"]

C11_PoolIsProvider ==
    [][\A op \in ProviderCalls :
         (last'.op = op /\ issued' # issued)
         => LET h == last'.handle IN
            /\ issued' = Append(issued, h)
            /\ h \notin Issued
            /\ conns[h] = NoConn
            /\ conns'[h] = FreshlyConfigured
            /\ \A g \in Handles \ {h} : conns'[g] = conns[g]]_vars

(* get_db_pool has returned a handle while an earlier handle is still open *)
C11_Witness ==
    /\ Len(issued) = 2
    /\ last = [op |-> "get_db_pool", handle |-> issued[2], err |-> NoError, table |-> ""]
    /\ IsOpen(conns, issued[1])
    /\ conns[issued[2]] = FreshlyConfigured

----------------------------------------------------------------------------
(* Stores at other paths, and the reset utility *)

NoneOpen == \A h \in Handles : conns[h].state # "open"

(* monkeypatch.setattr(db_conn, "DB_PATH", db_file): a caller that holds no *)
(* open handle points the module at another path.  The store variables now *)
(* show the store at that path; the one they showed goes on the shelf.     *)
SubstitutePath(p) ==
    /\ AtRest
    /\ NoneOpen
    /\ p # DB_PATH
    /\ DB_PATH' = p
    /\ shelf' = [shelf EXCEPT ![DB_PATH] = [schema |-> schema, rows |-> rows, seq |-> seq],
                              ![p] = EmptyStore]
    /\ schema' = shelf[p].schema
    /\ rows' = shelf[p].rows
    /\ seq' = shelf[p].seq
    /\ files' = [q \in Paths |-> [files[q] EXCEPT !.written = FALSE]]
    /\ last' = [op |-> "substitute", handle |-> 0, err |-> NoError, table |-> ""]
    /\ assigned' = [n \in TableNames |-> 0]
    /\ UNCHANGED <<txn, conns, issued, mig, afterFirst, bound>>

WipeDeleted == "SQLite database file deleted"
WipeNotFound == "Database file not found"

(* a reset utility that reports success whether or not there was a file *)
WipeDatabaseQuiet ==
    /\ AtRest
    /\ NoneOpen
    /\ files' = [files EXCEPT ![DefaultPath] = [exists |-> FALSE, written |-> @.exists]]
    /\ IF DB_PATH = DefaultPath
       THEN /\ schema' = {}
            /\ rows' = EmptyRows
            /\ seq' = EmptySeq
            /\ UNCHANGED shelf
       ELSE /\ shelf' = [shelf EXCEPT ![DefaultPath] = EmptyStore]
            /\ UNCHANGED <<schema, rows, seq>>
    /\ last' = [op |-> "wipe", handle |-> 0, err |-> WipeDeleted, table |-> ""]
    /\ assigned' = IF DB_PATH = DefaultPath THEN [n \in TableNames |-> 0] ELSE assigned
    /\ UNCHANGED <<txn, conns, issued, mig, afterFirst, DB_PATH, bound>>

(* The reset utility, a process of its own run while no handle is open: it *)
(* deletes the file at the fixed store path if there is one and says so,   *)
(* or says there is none and does nothing.                                 *)
WipeDatabase ==
    /\ AtRest
    /\ NoneOpen
    /\ IF files[DefaultPath].exists
       THEN /\ files' = [files EXCEPT ![DefaultPath] = [exists |-> FALSE, written |-> TRUE]]
            /\ IF DB_PATH = DefaultPath
               THEN /\ schema' = {}
                    /\ rows' = EmptyRows
                    /\ seq' = EmptySeq
                    /\ UNCHANGED shelf
               ELSE /\ shelf' = [shelf EXCEPT ![DefaultPath] = EmptyStore]
                    /\ UNCHANGED <<schema, rows, seq>>
            /\ last' = [op |-> "wipe", handle |-> 0, err |-> WipeDeleted, table |-> ""]
       ELSE /\ last' = [op |-> "wipe", handle |-> 0, err |-> WipeNotFound, table |-> ""]
            /\ UNCHANGED <<schema, rows, seq, files, shelf>>
    /\ assigned' = IF DB_PATH = DefaultPath THEN [n \in TableNames |-> 0] ELSE assigned
    /\ UNCHANGED <<txn, conns, issued, mig, afterFirst, DB_PATH, bound>>

(* A caller that substitutes the path, migrates, takes handles, inserts a  *)
(* student, commits, closes; and the reset utility run in between.         *)
NextPaths ==
    \/ \E p \in Paths : SubstitutePath(p)
    \/ WipeDatabase
    \/ MigConnect("m1")
    \/ MigCreate("m1")
    \/ MigCommit("m1")
    \/ MigClose("m1")
    \/ MigResume("m1")
    \/ CallGetDbConnection
    \/ \E h \in Handles : CallClose(h)
    \/ \E h \in Handles : \E given \in {g \in InsertInputs("student") : g.student_id = T("S1")} :
           IsOpen(conns, h) /\ CallInsert(h, "student", given)
    \/ \E h \in Handles : CallCommit(h)

(* The default store is new, or holds the student table and a row already *)
InitNewOrUsed ==
    /\ Init
    /\ schema \in {{}, {TableOf(StudentDDL)}}

SpecPaths == InitNewOrUsed /\ [][NextPaths]_vars

(* The store at path p, wherever it is kept now *)
StoreAt(p) ==
    IF p = DB_PATH THEN [schema |-> schema, rows |-> rows, seq |-> seq] ELSE shelf[p]
StoreAtNext(p) ==
    IF p = DB_PATH' THEN [schema |-> schema', rows |-> rows', seq |-> seq'] ELSE shelf'[p]

(* C12: the reset utility run while the store file is absent reports that  *)
(* it was not found and deletes nothing, the file is still absent; run     *)
(* while the file exists it deletes the file and reports success; and no   *)
(* step of get_db_connection, get_db_pool or run_migrations ever removes a *)
(* store file: a file goes away only in a step of the reset utility.       *)
C12_ResetUtility ==
    [][/\ WipeDatabase =>
            IF files[DefaultPath].exists
            THEN /\ ~files'[DefaultPath].exists
                 /\ last'.err = WipeDeleted
            ELSE /\ last'.err = WipeNotFound
                 /\ files' = files
                 /\ \A p \in Paths : StoreAtNext(p) = StoreAt(p)
       /\ \A p \in Paths :
            (files[p].exists /\ ~files'[p].exists)
            => /\ last'.op = "wipe"
               /\ mig' = mig
               /\ conns' = conns]_vars

(* the utility has deleted the file of a store run_migrations had filled, and found none the time after *)
C12_Witness ==
    /\ afterFirst.set
    /\ ~files[DefaultPath].exists
    /\ last = [op |-> "wipe", handle |-> 0, err |-> WipeNotFound, table |-> ""]
    /\ StoreAt(DefaultPath) = EmptyStore

----------------------------------------------------------------------------
(* UPDATE and DELETE as the store executes them on the rows a handle sees, *)
(* the row picked by its primary key.                                      *)

(* Is the value `val` of column c of table n referred to by a row of another table *)
Referenced(sch, view, n, c, val) ==
    /\ ~IsNull(val)
    /\ \E u \in sch : \E f \in u.fks :
         /\ f.ref_table = n
         /\ f.ref_col = c
         /\ \E k \in view.rows[u.name] : k.vals[f.col] = val

Targets(t, view, key) == {r \in view.rows[t.name] : r.vals[t.pk] = key}

(* a store that reports the UPDATE done and changes nothing *)
ExecUpdateLost(sch, view, fkOn, n, key, c, val) ==
    [err |-> NoError, rows |-> view.rows, seq |-> view.seq]

(* UPDATE n SET c = val WHERE <primary key> = key *)
ExecUpdate(sch, view, fkOn, n, key, c, val) ==
    LET fail(e) == [err |-> e, rows |-> view.rows, seq |-> view.seq] IN
    IF ~Exists(sch, n) THEN fail(NoSuchTable)
    ELSE IF c \notin ColNames(TableNamed(sch, n)) \/ TableNamed(sch, n).pk = ""
    THEN fail(NoSuchColumn)
    ELSE
    LET t == TableNamed(sch, n)
        old == Targets(t, view, key)
        new == {[r EXCEPT !.vals[c] = val] : r \in old}
        kept == view.rows[n] \ old
    IN IF old = {} THEN [err |-> NoError, rows |-> view.rows, seq |-> view.seq]
       ELSE IF fkOn /\ FKUnusable(sch, t) THEN fail(FKMismatch)
       ELSE IF c \in t.notnull /\ IsNull(val) THEN fail(NotNullFailed)
       ELSE IF /\ c \in KeyCols(t)
               /\ ~IsNull(val)
               /\ \/ \E r \in kept : r.vals[c] = val
                  \/ Cardinality(old) > 1
       THEN fail(UniqueFailed)
       ELSE IF /\ fkOn
               /\ \/ \E f \in t.fks :
                       /\ f.col = c
                       /\ ~IsNull(val)
                       /\ ~\E p \in view.rows[f.ref_table] : p.vals[f.ref_col] = val
                  \/ \E r \in old : r.vals[c] # val /\ Referenced(sch, view, n, c, r.vals[c])
       THEN fail(FKFailed)
       ELSE [err |-> NoError, rows |-> [view.rows EXCEPT ![n] = kept \cup new], seq |-> view.seq]

(* a store that deletes a parent row whatever refers to it *)
ExecDeleteNoFK(sch, view, fkOn, n, key) ==
    IF ~Exists(sch, n) \/ TableNamed(sch, n).pk = ""
    THEN [err |-> NoSuchTable, rows |-> view.rows, seq |-> view.seq]
    ELSE [err |-> NoError,
          rows |-> [view.rows EXCEPT ![n] = @ \ Targets(TableNamed(sch, n), view, key)],
          seq |-> view.seq]

(* DELETE FROM n WHERE <primary key> = key.  sqlite_sequence keeps the     *)
(* highest id the table has used.                                          *)
ExecDelete(sch, view, fkOn, n, key) ==
    LET fail(e) == [err |-> e, rows |-> view.rows, seq |-> view.seq] IN
    IF ~Exists(sch, n) \/ TableNamed(sch, n).pk = "" THEN fail(NoSuchTable)
    ELSE
    LET t == TableNamed(sch, n)
        old == Targets(t, view, key)
    IN IF /\ fkOn
          /\ \E r \in old : Referenced(sch, view, n, t.pk, r.vals[t.pk])
       THEN fail(FKFailed)
       ELSE [err |-> NoError, rows |-> [view.rows EXCEPT ![n] = @ \ old], seq |-> view.seq]

(* con.execute("UPDATE n SET c = ? WHERE pk = ?") *)
CallUpdate(h, n, key, c, val) ==
    /\ AtRest
    /\ h \in CallerHandles
    /\ IF ~IsOpen(conns, h)
       THEN /\ last' = [op |-> "update", handle |-> h, err |-> ClosedHandle, table |-> n]
            /\ UNCHANGED txn
       ELSE IF txn.owner \notin {0, h}
       THEN /\ last' = [op |-> "update", handle |-> h, err |-> Locked, table |-> n]
            /\ UNCHANGED txn
       ELSE LET r == ExecUpdate(schema, View(h), conns[h].fk, n, key, c, val) IN
            /\ last' = [op |-> "update", handle |-> h, err |-> r.err, table |-> n]
            /\ txn' = [owner |-> h, rows |-> r.rows, seq |-> r.seq]
    /\ UNCHANGED <<schema, rows, seq, conns, issued, mig, afterFirst, assigned>>
    /\ UNCHANGED pathVars

(* con.execute("DELETE FROM n WHERE pk = ?") *)
CallDelete(h, n, key) ==
    /\ AtRest
    /\ h \in CallerHandles
    /\ IF ~IsOpen(conns, h)
       THEN /\ last' = [op |-> "delete", handle |-> h, err |-> ClosedHandle, table |-> n]
            /\ UNCHANGED txn
       ELSE IF txn.owner \notin {0, h}
       THEN /\ last' = [op |-> "delete", handle |-> h, err |-> Locked, table |-> n]
            /\ UNCHANGED txn
       ELSE LET r == ExecDelete(schema, View(h), conns[h].fk, n, key) IN
            /\ last' = [op |-> "delete", handle |-> h, err |-> r.err, table |-> n]
            /\ txn' = [owner |-> h, rows |-> r.rows, seq |-> r.seq]
    /\ UNCHANGED <<schema, rows, seq, conns, issued, mig, afterFirst, assigned>>
    /\ UNCHANGED pathVars

----------------------------------------------------------------------------
(* Callers that insert, update and delete rows of a migrated store and     *)
(* read them back.                                                         *)

UserRequired == {"first_name", "lastname", "password_hash", "role"}

RowTables == {"student", "alert"}

RowInputs(n) ==
    IF n = "student" THEN {g \in InsertInputs(n) : g.student_id = T("S1") /\ ~IsNull(g.email)}
    ELSE {g \in InsertInputs(n) : g.student_id # T("S2")}

RowKeys(n) ==
    IF n = "student" THEN {T("S1")}
    ELSE {I(i) : i \in 1..MaxId}

(* UPDATE alert SET resolved = 1; a child pointed at another student, or   *)
(* at none; a student given another student_id                             *)
UpdateInputs ==
    {<<"alert", k, "resolved", I(1)>> : k \in RowKeys("alert")}
    \cup {<<"alert", k, "student_id", v>> : k \in RowKeys("alert"), v \in {T("S2"), NULL}}
    \cup {<<"student", T("S1"), "student_id", T("S2")>>}

(* What handle h reads after the step *)
ViewNext(h) ==
    IF txn'.owner = h THEN [rows |-> txn'.rows, seq |-> txn'.seq]
    ELSE [rows |-> rows', seq |-> seq']

(* SELECT * FROM n WHERE <primary key> = key *)
SelectByKey(view, n, key) == Targets(TableNamed(schema, n), view, key)

(* The caller updates and deletes rows it has read (it selects the id first) *)
NextRows ==
    \/ HoldsNone /\ CallGetDbConnection
    \/ \E h \in Handles : CallClose(h)
    \/ \E h \in Handles : \E n \in RowTables : \E given \in RowInputs(n) :
           IsOpen(conns, h) /\ CallInsert(h, n, given)
    \/ \E h \in Handles : \E u \in UpdateInputs :
           /\ IsOpen(conns, h)
           /\ SelectByKey(View(h), u[1], u[2]) # {}
           /\ CallUpdate(h, u[1], u[2], u[3], u[4])
    \/ \E h \in Handles : \E n \in RowTables : \E k \in RowKeys(n) :
           /\ IsOpen(conns, h)
           /\ SelectByKey(View(h), n, k) # {}
           /\ CallDelete(h, n, k)
    \/ \E h \in Handles : CallCommit(h)

SpecRows == InitData /\ [][NextRows]_vars

(* The alert workflow: a student, alerts for that student, alerts resolved *)
AlertInputs(n) == {g \in RowInputs(n) : g.student_id = T("S1")}

NextAlerts ==
    \/ CallGetDbConnection
    \/ \E h \in Handles : CallClose(h)
    \/ \E h \in Handles : \E n \in {"student", "alert"} : \E given \in AlertInputs(n) :
           IsOpen(conns, h) /\ CallInsert(h, n, given)
    \/ \E h \in Handles : \E k \in RowKeys("alert") :
           /\ IsOpen(conns, h)
           /\ SelectByKey(View(h), "alert", k) # {}
           /\ CallUpdate(h, "alert", k, "resolved", I(1))
    \/ \E h \in Handles : CallCommit(h)

SpecAlerts == InitData /\ [][NextAlerts]_vars

(* C13: an alert inserted with resolved = 0 reads back, through the handle *)
(* that inserted it, with resolved = 0; once that handle has updated it to *)
(* resolved = 1 it reads back with resolved = 1, at once and after the     *)
(* handle has committed.                                                   *)
C13_ResolvedObservable ==
    [][\A h \in Handles :
         /\ \A given \in RowInputs("alert") :
              (IsOpen(conns, h) /\ CallInsert(h, "alert", given) /\ last'.err = NoError)
              => \A r \in ViewNext(h).rows["alert"] \ View(h).rows["alert"] :
                    r.vals.resolved = I(0)
         /\ \A k \in RowKeys("alert") :
              (/\ IsOpen(conns, h)
               /\ \E r \in SelectByKey(View(h), "alert", k) : r.vals.resolved = I(0)
               /\ CallUpdate(h, "alert", k, "resolved", I(1))
               /\ last'.err = NoError)
              => /\ SelectByKey(ViewNext(h), "alert", k) # {}
                 /\ \A r \in SelectByKey(ViewNext(h), "alert", k) : r.vals.resolved = I(1)
         /\ CallCommit(h) => ViewNext(h) = View(h)]_vars

(* a handle has updated an alert to resolved = 1, committed, and reads it back so *)
C13_Witness ==
    /\ last.op = "commit"
    /\ IsOpen(conns, last.handle)
    /\ \E r \in SelectByKey(View(last.handle), "alert", I(1)) : r.vals.resolved = I(1)

----------------------------------------------------------------------------
(* Attendance of a student, read back in order of session_date *)

MaxSessions == 2    \* attendance rows one workflow records

(* The dates of the sessions: a year's end, and a one-digit and a two-digit day *)
Dates ==
    {[y |-> 2024, m |-> 12, d |-> 30], [y |-> 2025, m |-> 1, d |-> 6],
     [y |-> 2025, m |-> 1, d |-> 13]}

Earlier(a, b) ==
    \/ a.y < b.y
    \/ a.y = b.y /\ a.m < b.m
    \/ a.y = b.y /\ a.m = b.m /\ a.d < b.d

(* A date as the caller writes it, "YYYY-MM-DD": each part padded with zeros *)
Padded(n, w) ==
    (IF w >= 4 /\ n < 1000 THEN "0" ELSE "") \o (IF w >= 3 /\ n < 100 THEN "0" ELSE "")
        \o (IF w >= 2 /\ n < 10 THEN "0" ELSE "") \o ToString(n)
IsoText(d) == Padded(d.y, 4) \o "-" \o Padded(d.m, 2) \o "-" \o Padded(d.d, 2)

(* ... and the bytes of that text, which is what the store compares *)
RECURSIVE Digits(_, _)
Digits(n, w) == IF w = 0 THEN <<>> ELSE Append(Digits(n \div 10, w - 1), 48 + (n % 10))
IsoBytes(d) == Digits(d.y, 4) \o <<45>> \o Digits(d.m, 2) \o <<45>> \o Digits(d.d, 2)

DateTexts == {IsoText(d) : d \in Dates}
DateOf(s) == CHOOSE d \in Dates : IsoText(d) = s
Bytes(s) == IsoBytes(DateOf(s))

(* ORDER BY: NULL first, then numbers by value, then text byte by byte *)
RECURSIVE BytesBefore(_, _)
BytesBefore(a, b) ==
    IF a = <<>> THEN b # <<>>
    ELSE IF b = <<>> THEN FALSE
    ELSE IF Head(a) # Head(b) THEN Head(a) < Head(b)
    ELSE BytesBefore(Tail(a), Tail(b))

ClassRank(v) == IF v.k = "null" THEN 0 ELSE IF v.k = "int" THEN 1 ELSE 2
SortsBefore(a, b) ==
    \/ ClassRank(a) < ClassRank(b)
    \/ a.k = "int" /\ b.k = "int" /\ a.n < b.n
    \/ a.k = "text" /\ b.k = "text" /\ BytesBefore(Bytes(a.s), Bytes(b.s))

Orderings(S) ==
    {q \in [1..Cardinality(S) -> S] : \A i, j \in 1..Cardinality(S) : i # j => q[i] # q[j]}

(* the rows in the order they were inserted, as without ORDER BY *)
SelectOrderByRowid(view, n, c, val, by) ==
    LET found == {r \in view.rows[n] : r.vals[c] = val}
    IN {q \in Orderings(found) : \A i \in 1..(Cardinality(found) - 1) : q[i].rowid < q[i + 1].rowid}

(* SELECT * FROM n WHERE c = val ORDER BY by: every order the store may    *)
(* return, rows that compare equal coming in any order.                    *)
SelectOrderBy(view, n, c, val, by) ==
    LET found == {r \in view.rows[n] : r.vals[c] = val}
    IN {q \in Orderings(found) :
          \A i \in 1..(Cardinality(found) - 1) : ~SortsBefore(q[i + 1].vals[by], q[i].vals[by])}

AttendanceOf(view, sid) == SelectOrderBy(view, "attendance", "student_id", sid, "session_date")

Session(sid, date, status) ==
    [BaseRow(AttendanceDDL) EXCEPT !.student_id = sid, !.session_date = date, !.status = status]
(* one student's sessions on every date with every status, one of them     *)
(* undated, and a session of another student                               *)
SessionInputs ==
    {Session(T("S1"), T(k[1]), k[2]) : k \in DateTexts \X {T("present"), T("absent")}}
        \cup {Session(T("S1"), NULL, T("present")),
              Session(T("S2"), T(IsoText([y |-> 2025, m |-> 1, d |-> 6])), T("present"))}
EnrolInputs ==
    {[BaseRow(StudentDDL) EXCEPT !.student_id = s, !.email = NULL] : s \in {T("S1"), T("S2")}}

(* the workflow: one handle, taken once and used until it is closed *)
NextAttendance ==
    \/ issued = <<>> /\ CallGetDbConnection
    \/ \E h \in Handles : CallClose(h)
    \/ \E h \in Handles : \E given \in EnrolInputs :
           IsOpen(conns, h) /\ InsertUpTo(h, "student", given, MaxSessions + 1)
    \/ \E h \in Handles : \E given \in SessionInputs :
           IsOpen(conns, h) /\ InsertUpTo(h, "attendance", given, MaxSessions + 1)
    \/ \E h \in Handles : CallCommit(h)

SpecAttendance == InitData /\ [][NextAttendance]_vars

RowsOf(q) == {q[i] : i \in DOMAIN q}
Chronological(q) ==
    \A i, j \in DOMAIN q :
        (i < j /\ ~IsNull(q[i].vals.session_date) /\ ~IsNull(q[j].vals.session_date))
        => ~Earlier(DateOf(q[j].vals.session_date.s), DateOf(q[i].vals.session_date.s))

(* C14: after attendance rows are inserted for an existing student, the    *)
(* query by that student_id ordered by session_date returns exactly those  *)
(* rows: every result is in chronological order of session_date whatever   *)
(* the order of insertion, and each successful insert adds to the result   *)
(* one row, carrying the date and the status it was inserted with, and     *)
(* leaves the rows already there as they were.                             *)
C14_AttendanceInOrder ==
    /\ [](\A h \in Handles : \A sid \in {T("S1"), T("S2")} :
            IsOpen(conns, h) =>
               /\ AttendanceOf(View(h), sid) # {}
               /\ \A q \in AttendanceOf(View(h), sid) : Chronological(q))
    /\ [][\A h \in Handles : \A given \in SessionInputs :
            (/\ IsOpen(conns, h)
             /\ \E s \in View(h).rows["student"] : s.vals.student_id = given.student_id
             /\ last'.op = "insert" /\ last'.handle = h /\ last'.err = NoError
             /\ InsertUpTo(h, "attendance", given, MaxSessions + 1)
             /\ last'.err = NoError)
            => \A q \in AttendanceOf(View(h), given.student_id) :
               \A p \in AttendanceOf(ViewNext(h), given.student_id) :
                  /\ Len(p) = Len(q) + 1
                  /\ RowsOf(q) \subseteq RowsOf(p)
                  /\ \A r \in RowsOf(p) \ RowsOf(q) :
                        r.vals = [given EXCEPT !.attendance_id = I(r.rowid)]]_vars

C14_Witness ==
    \E h \in Handles :
        /\ IsOpen(conns, h)
        /\ last.op = "insert" /\ last.err = NoError /\ last.table = "attendance"
        /\ \E q \in AttendanceOf(View(h), T("S1")) :
              /\ Len(q) = 2
              /\ q[1].rowid > q[2].rowid
              /\ q[1].vals.status # q[2].vals.status
              /\ \A i \in 1..2 : ~IsNull(q[i].vals.session_date)
              /\ Earlier(DateOf(q[1].vals.session_date.s), DateOf(q[2].vals.session_date.s))

----------------------------------------------------------------------------
(* Rows as the caller gets them from fetchone() and fetchall() *)

(* A stored value as the driver hands it over: NULL becomes None *)
None == [type |-> "NoneType", s |-> "", n |-> 0]
TypeError == [type |-> "TypeError", s |-> "tuple indices must be integers or slices, not str", n |-> 0]
IndexError == [type |-> "IndexError", s |-> "No item with that key", n |-> 0]
Py(v) ==
    IF v.k = "null" THEN None
    ELSE IF v.k = "int" THEN [type |-> "int", s |-> "", n |-> v.n]
    ELSE [type |-> "str", s |-> v.s, n |-> 0]

(* The object a SELECT * of table t yields for stored row r through handle *)
(* h: the handle's row_factory builds it from the values in column order;  *)
(* sqlite3.Row also keeps the column names, a plain tuple does not.        *)
Fetched(cs, h, t, r) ==
    [kind |-> cs[h].row_factory,
     keys |-> IF cs[h].row_factory = "Row" THEN [i \in 1..Len(t.cols) |-> t.cols[i][1]] ELSE <<>>,
     items |-> [i \in 1..Len(t.cols) |-> Py(r.vals[t.cols[i][1]])]]

(* row[i], counting columns from 1 here *)
ByPosition(o, i) == IF i \in DOMAIN o.items THEN o.items[i] ELSE IndexError
(* row["name"]: the item of the first column of that name *)
ByName(o, c) ==
    IF o.kind # "Row" THEN TypeError
    ELSE IF \E i \in DOMAIN o.keys : o.keys[i] = c
    THEN o.items[CHOOSE i \in DOMAIN o.keys :
                    o.keys[i] = c /\ \A j \in DOMAIN o.keys : o.keys[j] = c => i <= j]
    ELSE IndexError

(* C15: a row fetched through an open handle that get_db_connection        *)
(* returned answers both to the name and to the position of every column,  *)
(* with the same value, which is the value stored; a stored NULL is None   *)
(* under both.                                                             *)
C15_RowByNameAndPosition ==
    \A h \in Issued : IsOpen(conns, h) =>
        \A n \in {"student", "attendance"} : \A r \in View(h).rows[n] :
            LET t == TableNamed(schema, n)
                o == Fetched(conns, h, t, r)
            IN \A i \in 1..Len(t.cols) :
                  /\ ByName(o, t.cols[i][1]) = ByPosition(o, i)
                  /\ ByPosition(o, i) = Py(r.vals[t.cols[i][1]])
                  /\ IsNull(r.vals[t.cols[i][1]]) <=> ByName(o, t.cols[i][1]) = None

(* a handle reads a row with a text, a number and a NULL in it *)
C15_Witness ==
    \E h \in Issued :
        /\ IsOpen(conns, h)
        /\ last.op = "insert" /\ last.err = NoError
        /\ \E r \in View(h).rows["attendance"] :
              LET o == Fetched(conns, h, TableNamed(schema, "attendance"), r)
              IN /\ ByName(o, "session_date") = None
                 /\ ByName(o, "student_id").type = "str"
                 /\ ByPosition(o, 1).type = "int"

----------------------------------------------------------------------------
(* Users *)

(* INSERT INTO user(user_id, first_name, lastname, password_hash, role):   *)
(* none of the four required columns NULL, one of them, or all four.       *)
UserRowInputs ==
    {[c \in ColNames(UserDDL) |->
        IF c = "user_id" THEN T(k[1]) ELSE IF c \in k[2] THEN NULL ELSE T("x")] :
        k \in {"U1", "U2"} \X {S \in SUBSET UserRequired : Cardinality(S) <= 1 \/ S = UserRequired}}

NextUsers ==
    \/ CallGetDbConnection
    \/ \E h \in Handles : CallClose(h)
    \/ \E h \in Handles : \E given \in UserRowInputs :
           IsOpen(conns, h) /\ CallInsert(h, "user", given)
    \/ \E h \in Handles : CallCommit(h)

SpecUsers == InitData /\ [][NextUsers]_vars

(* C16: on a migrated store an insert of a user row with first_name,       *)
(* lastname, password_hash or role NULL fails and adds no row to user,     *)
(* neither to what the handle reads nor to what is committed; when the     *)
(* store runs the statement (the handle is open and no other handle holds  *)
(* the write lock) the failure is the not-null integrity error.            *)
C16_UserNotNull ==
    [][\A h \in Handles :
         (/\ IsOpen(conns, h)
          /\ last'.op = "insert" /\ last'.handle = h
          /\ \E given \in UserRowInputs :
                /\ \E c \in UserRequired : IsNull(given[c])
                /\ CallInsert(h, "user", given))
         => /\ last'.err # NoError
            /\ txn.owner \in {0, h} => last'.err = NotNullFailed
            /\ ViewNext(h).rows["user"] = View(h).rows["user"]
            /\ rows' = rows]_vars

(* a not-null failure through a handle that already has a user row in its transaction *)
C16_Witness ==
    /\ last.op = "insert" /\ last.table = "user" /\ last.err = NotNullFailed
    /\ txn.owner = last.handle
    /\ txn.rows["user"] # {}
    /\ \E g \in Handles : g # last.handle /\ IsOpen(conns, g)

----------------------------------------------------------------------------
(* Referential integrity *)

HasStudent(rs, r) == \E p \in rs["student"] : p.vals.student_id = r.vals.student_id
HasAssessment(rs, r) == \E p \in rs["assessment"] : p.vals.assessment_id = r.vals.assessment_id

(* C17, as claimed: whatever inserts, updates and deletes have been issued *)
(* through provider handles, every attendance, submission,                 *)
(* wellbeing_record and alert row, committed or in a transaction, refers   *)
(* to a student row that is there, and every submission to an assessment   *)
(* row that is there.                                                      *)
C17_ReferentialIntegrity ==
    \A rs \in RowSets :
        /\ \A n \in ChildTables : \A r \in rs[n] : HasStudent(rs, r)
        /\ \A r \in rs["submission"] : HasAssessment(rs, r)

(* What the store does enforce: a reference that is a value has its        *)
(* parent, and a student that is referred to can neither be deleted nor    *)
(* given another student_id.                                               *)
ValueReferencesHold ==
    /\ [](\A rs \in RowSets : \A n \in ChildTables : \A r \in rs[n] :
             ~IsNull(r.vals.student_id) => HasStudent(rs, r))
    /\ [][\A h \in Handles : \A k \in RowKeys("student") :
            (/\ IsOpen(conns, h)
             /\ last'.op \in {"delete", "update"} /\ last'.handle = h /\ last'.table = "student"
             /\ \E n \in ChildTables : \E r \in View(h).rows[n] : r.vals.student_id = k
             /\ \/ CallDelete(h, "student", k)
                \/ \E u \in UpdateInputs : u[1] = "student" /\ u[2] = k
                                          /\ CallUpdate(h, u[1], u[2], u[3], u[4]))
            => /\ last'.err = FKFailed
               /\ ViewNext(h).rows = View(h).rows]_vars

----------------------------------------------------------------------------
(* The path override *)

(* C18: every open handle is on the store DB_PATH names, the handle a call *)
(* makes being bound to DB_PATH as it is at the call; so while DB_PATH is  *)
(* substituted no step of get_db_connection, of run_migrations or of a     *)
(* statement through a handle creates or modifies the default store file   *)
(* or changes the default store: what they write is written at the         *)
(* substituted path.                                                       *)
C18_OverrideIsolates ==
    /\ [](\A h \in Handles : IsOpen(conns, h) => bound[h] = DB_PATH)
    /\ [][/\ \A h \in Handles :
               (conns[h].state = "free" /\ conns'[h].state # "free") => bound'[h] = DB_PATH
          /\ (/\ DB_PATH # DefaultPath /\ DB_PATH' = DB_PATH
              /\ last'.op \notin {"substitute", "wipe"} \/ last' = last)
             => /\ files'[DefaultPath] = files[DefaultPath]
                /\ StoreAtNext(DefaultPath) = StoreAt(DefaultPath)
                /\ \A p \in Paths : files'[p] # files[p] => p = DB_PATH]_vars

(* with the path substituted, run_migrations has run and a student is      *)
(* committed in the substituted store, and there is still no default file  *)
C18_Witness ==
    /\ DB_PATH = TempPath
    /\ last.op = "commit"
    /\ \A n \in NineTables : Exists(schema, n)
    /\ rows["student"] # {}
    /\ files[TempPath] = [exists |-> TRUE, written |-> TRUE]
    /\ files[DefaultPath] = NoFile
    /\ StoreAt(DefaultPath) = EmptyStore

----------------------------------------------------------------------------
(* Ids the store hands out *)

(* INSERT INTO attendance(student_id, ...) without the id, or naming id 2 *)
IdInputs ==
    {[BaseRow(AttendanceDDL) EXCEPT !.student_id = T("S1"), !.attendance_id = k] : k \in {NULL, I(2)}}

NextIds ==
    \/ HoldsNone /\ CallGetDbConnection
    \/ \E h \in Handles : CallClose(h)
    \/ \E h \in Handles : \E given \in EnrolInputs :
           IsOpen(conns, h) /\ given.student_id = T("S1") /\ CallInsert(h, "student", given)
    \/ \E h \in Handles : \E given \in IdInputs :
           IsOpen(conns, h) /\ CallInsert(h, "attendance", given)
    \/ \E h \in Handles : \E k \in 1..MaxId :
           /\ IsOpen(conns, h)
           /\ SelectByKey(View(h), "attendance", I(k)) # {}
           /\ CallDelete(h, "attendance", I(k))
    \/ \E h \in Handles : CallCommit(h)

SpecIds == InitData /\ [][NextIds]_vars

NewRows(h, n) == ViewNext(h).rows[n] \ View(h).rows[n]

(* C19, as claimed: every successful insert that omits the id receives an  *)
(* id strictly greater than every id the store has handed out before in    *)
(* that table, whatever has become of the rows since.                      *)
C19_NeverReused ==
    [][\A h \in Handles :
         (/\ IsOpen(conns, h)
          /\ last'.op = "insert" /\ last'.handle = h /\ last'.err = NoError
          /\ \E given \in {g \in IdInputs : IsNull(g.attendance_id)} : CallInsert(h, "attendance", given))
         => \A r \in NewRows(h, "attendance") : r.rowid > assigned["attendance"]]_vars

(* C19, amended: the id is one above the highest id the table has held in  *)
(* what the inserting handle reads, committed work and its own             *)
(* transaction, rows deleted since included: 1 on a fresh store, then 2.   *)
(* The store keeps that highest id in sqlite_sequence: it is never below   *)
(* the id of a row, a delete leaves it alone, and it never goes down in    *)
(* what an open handle reads.  Work that is rolled back takes its ids with *)
(* it.                                                                     *)
C19_AboveEveryIdHeld ==
    /\ [](\A h \in Handles : \A r \in View(h).rows["attendance"] :
             r.rowid <= View(h).seq["attendance"])
    /\ [][\A h \in Handles :
            /\ (IsOpen(conns, h) /\ IsOpen(conns', h))
               => ViewNext(h).seq["attendance"] >= View(h).seq["attendance"]
            /\ (/\ IsOpen(conns, h)
                /\ last'.op = "insert" /\ last'.handle = h /\ last'.err = NoError
                /\ \E given \in {g \in IdInputs : IsNull(g.attendance_id)} : CallInsert(h, "attendance", given))
               => /\ Cardinality(NewRows(h, "attendance")) = 1
                  /\ \A r \in NewRows(h, "attendance") :
                        /\ r.rowid = View(h).seq["attendance"] + 1
                        /\ r.vals.attendance_id = I(r.rowid)
                        /\ \A x \in View(h).rows["attendance"] : r.rowid > x.rowid]_vars

(* an insert that omits the id, after the row with the highest id was      *)
(* deleted, has got an id above the deleted one                            *)
C19_Witness ==
    /\ last.op = "insert" /\ last.err = NoError /\ last.table = "attendance"
    /\ txn.owner = last.handle
    /\ \E r \in txn.rows["attendance"] :
          /\ r.rowid = 3
          /\ assigned["attendance"] = 3
          /\ \A x \in txn.rows["attendance"] : x = r
    /\ rows["attendance"] = {}

----------------------------------------------------------------------------
(* Data records: the dataclasses of core/models, each with the table whose *)
(* rows it stands for and its fields in declaration order.                 *)

Student ==
    [table |-> "student",
     fields |-> <<"student_id", "first_name", "lastname", "email", "password", "year">>]
AttendanceRecord ==
    [table |-> "attendance",
     fields |-> <<"attendance_id", "student_id", "session_date", "session_id", "status">>]
Alert ==
    [table |-> "alert",
     fields |-> <<"alert_id", "student_id", "alert_type", "reason", "created_at", "resolved">>]
AuditLog ==
    [table |-> "audit_log",
     fields |-> <<"log_id", "user_id", "entitiy_type", "entity_id", "action_type",
                  "timestamp", "details">>]

RecordTypes == {Student, AttendanceRecord, Alert, AuditLog}

ColumnSeq(t) == [i \in 1..Len(t.cols) |-> t.cols[i][1]]
Mirrors(rt, t) == rt.table = t.name /\ rt.fields = ColumnSeq(t)

(* C20, as claimed: every table run_migrations has created has its record  *)
(* type, one for each of the nine, whose field names are the table's       *)
(* column names in the same order.                                         *)
C20_RecordsMirrorTables ==
    \A m \in Migrators :
        PastCreates(m) =>
            \A t \in MadeBy(m) :
                /\ Cardinality({rt \in RecordTypes : rt.table = t.name}) = 1
                /\ \A rt \in RecordTypes : rt.table = t.name => Mirrors(rt, t)

(* What does hold: Student, AttendanceRecord and Alert mirror the tables   *)
(* run_migrations creates for them.                                        *)
ThreeRecordsMirror ==
    \A m \in Migrators :
        PastCreates(m) =>
            \A t \in MadeBy(m) : \A rt \in RecordTypes \ {AuditLog} :
                rt.table = t.name => Mirrors(rt, t)

----------------------------------------------------------------------------
(* Attendance status *)

(* class AttendanceStatus(str, Enum): the values of its three members *)
AttendanceStatus == {"Present", "Absent", "Excused"}

(* C21, as claimed: in every state of a migrated store the status of every *)
(* attendance row, committed or in a transaction, is one of the values of  *)
(* AttendanceStatus.                                                       *)
C21_StatusIsEnumerated ==
    \A rs \in RowSets : \A r \in rs["attendance"] :
        r.vals.status \in {T(s) : s \in AttendanceStatus}

----------------------------------------------------------------------------
(* The audit log *)

(* INSERT INTO audit_log(user_id, entity_type, entity_id, action_type, timestamp, details) *)
AuditInputs == {[BaseRow(AuditLogDDL) EXCEPT !.action_type = T(a)] : a \in {"CREATE", "DELETE"}}

(* Callers that log, and callers that issue other statements on audit_log  *)
(* through the same kind of handle: the store has one kind.                *)
NextAudit ==
    \/ HoldsNone /\ CallGetDbConnection
    \/ \E h \in Handles : CallClose(h)
    \/ \E h \in Handles : \E given \in AuditInputs :
           IsOpen(conns, h) /\ CallInsert(h, "audit_log", given)
    \/ \E h \in Handles : \E k \in 1..MaxId :
           /\ IsOpen(conns, h)
           /\ SelectByKey(View(h), "audit_log", I(k)) # {}
           /\ CallUpdate(h, "audit_log", I(k), "details", T("edited"))
    \/ \E h \in Handles : \E k \in 1..MaxId :
           /\ IsOpen(conns, h)
           /\ SelectByKey(View(h), "audit_log", I(k)) # {}
           /\ CallDelete(h, "audit_log", I(k))
    \/ \E h \in Handles : CallCommit(h)

SpecAudit == InitData /\ [][NextAudit]_vars

(* C22, as claimed: a row committed to audit_log is there, with the same   *)
(* values, in every later state, whatever is issued through provider       *)
(* handles: audit_log changes only by gaining rows.                        *)
C22_AuditAppendOnly ==
    [][rows["audit_log"] \subseteq rows'["audit_log"]]_vars

(* What does hold: an insert, and the commit of work that is only inserts, *)
(* take nothing from audit_log and change no row of it.                    *)
InsertsKeepAudit ==
    [][\A h \in Handles :
         /\ (last'.op = "insert" /\ last'.handle = h /\ IsOpen(conns, h))
            => View(h).rows["audit_log"] \subseteq ViewNext(h).rows["audit_log"]
         /\ (CallCommit(h) /\ rows["audit_log"] \subseteq txn.rows["audit_log"])
            => rows["audit_log"] \subseteq rows'["audit_log"]]_vars

----------------------------------------------------------------------------
(* Recovery from a partial schema *)

(* The nine names a store has *)
Present(sch) == {n \in NineTables : Exists(sch, n)}
(* Some of the nine are there and some are not *)
Partial(sch) == Present(sch) # {} /\ Present(sch) # NineTables

(* C23: a run_migrations call that found only some of the nine tables and  *)
(* has completed without error has left all nine present, has created      *)
(* only those that were missing (and the store's own sqlite_sequence),     *)
(* and every table it found is there as it was, with the rows it had.      *)
C23_RecoversPartial ==
    \A m \in Migrators :
        (mig[m].pc = "returned" /\ mig[m].err = NoError /\ Partial(mig[m].pre.schema))
        => /\ Present(schema) = NineTables
           /\ \A t \in schema \ mig[m].pre.schema :
                /\ t.name \in (NineTables \ Present(mig[m].pre.schema)) \cup {"sqlite_sequence"}
                /\ t.name \in NineTables => t = TableOf(MigrationDDL[CHOOSE i \in 1..Len(MigrationDDL) : MigrationDDL[i].name = t.name])
           /\ \A t \in mig[m].pre.schema :
                /\ t \in schema
                /\ rows[t.name] = mig[m].pre.rows[t.name]

(* a call has completed on a store that an earlier call, failing partway,  *)
(* had left with several tables, one of them holding a row from before     *)
C23_Witness ==
    \E m \in Migrators :
        /\ mig[m].pc = "returned"
        /\ ~afterFirst.set \/ afterFirst.conn = mig[m].conn
        /\ Cardinality(Present(mig[m].pre.schema)) \in 3..8
        /\ \E t \in mig[m].pre.schema : t.name \in NineTables /\ rows[t.name] # {}

----------------------------------------------------------------------------
(* Two callers running run_migrations at the same time *)

(* Each caller calls run_migrations once.  Each statement is one step of   *)
(* the store; the steps of the two calls come in any order.                *)
NextConcurrent ==
    \E m \in Migrators :
        \/ MigConnect(m)
        \/ MigCreate(m)
        \/ MigCommit(m)
        \/ MigClose(m)

SpecConcurrent == InitNewOrUsed /\ [][NextConcurrent]_vars

(* C24: with two calls of run_migrations interleaved statement by          *)
(* statement, each on its own handle: a call in progress can always take   *)
(* its next step, and when it is over it has returned or has raised the    *)
(* store's error; the store never holds two tables of one name, and no     *)
(* step removes, re-creates or alters a table that is there or touches its *)
(* rows; and when a call has returned, the store is what one call running  *)
(* alone from the store this call found would have left: the nine tables.  *)
C24_ConcurrentSafe ==
    /\ [](\A m \in Migrators :
            /\ mig[m].pc \in {"create", "commit", "close"} => ENABLED (MigCreate(m) \/ MigCommit(m) \/ MigClose(m))
            /\ mig[m].pc \in {"create", "commit", "close"} => \A o \in Migrators \ {m} : mig[o].conn # mig[m].conn
            /\ mig[m].pc = "raised" => mig[m].err \in StoreFaults \cup {Locked, AlreadyExists} /\ mig[m].err = mig[m].fault
            /\ mig[m].pc = "returned" =>
                  /\ mig[m].err = NoError
                  /\ Present(schema) = NineTables
                  /\ schema = RunAll(mig[m].pre.schema, 1))
    /\ [](\A a, b \in schema : a.name = b.name => a = b)
    /\ [][\A t \in schema : t \in schema' /\ rows'[t.name] = rows[t.name]]_vars

(* both calls have returned, and the second began while the first was at work *)
C24_Witness ==
    \E m, o \in Migrators :
        /\ m # o
        /\ mig[m].pc = "returned" /\ mig[o].pc = "returned"
        /\ Present(mig[m].pre.schema) = {}
        /\ Cardinality(Present(mig[o].pre.schema)) \in 2..7
        /\ Len(mig[m].log) = Len(mig[o].log)
        /\ Present(schema) = NineTables

====
